---------------------------- MODULE Spec2Model ----------------------------
(***************************************************************************)
(* A model of the per-device LoRaWAN Class-A stack of the simulator:       *)
(* LoRaWANStack (send cycle, RX windows, downlink demux), RadioPHY         *)
(* (channels, duty cycle), LoRaWANProtocol (frame counter, uplink frame)   *)
(* and MACCommandHandler (MAC requests and their answers).                 *)
(*                                                                         *)
(* Time is the event loop's clock in microseconds.  A coroutine runs       *)
(* without interruption between two suspension points (asyncio is          *)
(* cooperative): a caller whose pc is one of RunningPCs holds the loop and *)
(* no other task steps until it suspends.                                  *)
(***************************************************************************)
EXTENDS Integers, Sequences, FiniteSets, TLC

(***************************************************************************)
(* Bounds of the model.                                                    *)
(***************************************************************************)
NumCallers == 2          \* tasks that call safe_send on the device
MaxSends == 2            \* safe_send calls in one behaviour
MaxEvents == 2           \* events of the environment in one behaviour: downlinks
                         \* accepted, uplinks lost on the air, long back-off
                         \* draws, aggregated duty-cycle waits, cancellations
MaxTime == 30000000     \* the clock stops advancing here (microseconds)
MaxQuietTime == 1700000000   \* the same when the device is left alone
MaxRequests == 2         \* downlinks in a behaviour of MAC requests only
NumDevices == 2          \* devices subscribed to the bus
MaxPullResp == 2         \* PULL_RESP datagrams in one behaviour
MaxGaps == 1             \* idle stretches of the gateway's clock
MaxRotations == 4        \* rotations of the channel in the radio by itself

(***************************************************************************)
(* Program constants.                                                      *)
(***************************************************************************)
Sec == 1000000                       \* one second of the clock
JitterTolerance == 20000             \* rx1_jitter_tolerance = 0.02 s
AckTimeoutExtra == 1100000           \* rx_delay_secs + 1.1
FallbackWait == 1000000              \* asyncio.sleep(1.0) when no channel
SendInterval == 10000000             \* IotDevice send_interval = 10
max_ack_retries == 8                 \* RadioPHY.max_ack_retries
Rx2DefaultFrequency == 869525000     \* RadioPHY.rx2_frequency
BatteryStatus == 240                 \* IotDevice.get_battery_status
LinkAdrStatus == 7                   \* status 0b00000111 of the answers

NbTransBackoffRange == {500000, 2000000}     \* random.uniform(0.5, 2.0)
RetryBackoffRange == {2000000, 6000000}      \* random.uniform(2.0, 6.0)
AggWaits == {1000000}                        \* waits the aggregated check reports

DevAddr == <<38, 1, 27, 218>>        \* "26011BDA"
OtherDevAddr == <<38, 1, 27, 219>>   \* "26011BDB", another device
AppPayload == <<1, 100>>             \* IotDevice.generate_app_payload
NwkSKey == 11                        \* session keys, as seeds of the keystream
AppSKey == 23

Callers == 1 .. NumCallers

\* the least value of a range is drawn freely, any other draw is an event
SetMin(S) == CHOOSE x \in S : \A y \in S : x <= y

(***************************************************************************)
(* Bytes.                                                                  *)
(***************************************************************************)
Lo4(b) == b % 16
Hi4(b) == b \div 16
Bit(b, i) == (b \div (2 ^ i)) % 2

Max(a, b) == IF a >= b THEN a ELSE b
Min(a, b) == IF a <= b THEN a ELSE b

RECURSIVE Xor8(_, _, _)
Xor8(a, b, n) ==
    IF n = 0 THEN 0
    ELSE ((a + b) % 2) + 2 * Xor8(a \div 2, b \div 2, n - 1)

Reverse(s) == [i \in 1 .. Len(s) |-> s[Len(s) + 1 - i]]

\* data[a:b] of Python, on a 1-based sequence (a, b are 0-based offsets)
Slice(s, a, b) ==
    LET lo == Min(a, Len(s))
        hi == Min(Max(b, lo), Len(s))
    IN  [i \in 1 .. (hi - lo) |-> s[lo + i]]

\* int.from_bytes(s, 'little')
RECURSIVE FromLittle(_)
FromLittle(s) ==
    IF s = <<>> THEN 0 ELSE s[1] + 256 * FromLittle(Tail(s))

\* int(x / y) of Python for integers: truncation towards zero
TruncDiv(x, y) ==
    IF x >= 0 THEN x \div y ELSE -((-x) \div y)

(***************************************************************************)
(* utils.py                                                                *)
(***************************************************************************)
NoSfBw == <<-1, -1>>                 \* (None, None)

\* EU868_DR_MAP / dr_to_sf_bw
dr_to_sf_bw(dr) ==
    CASE dr = 0 -> <<12, 125>>
      [] dr = 1 -> <<11, 125>>
      [] dr = 2 -> <<10, 125>>
      [] dr = 3 -> <<9, 125>>
      [] dr = 4 -> <<8, 125>>
      [] dr = 5 -> <<7, 125>>
      [] dr = 6 -> <<7, 250>>
      [] dr = 7 -> <<50, 0>>
      [] OTHER -> NoSfBw

\* arithmetic on (None, None) raises TypeError, division by bw = 0 raises
\* ZeroDivisionError
SfBwRaises(sfbw) == sfbw = NoSfBw \/ sfbw[2] = 0

\* (2 ** sf) / (bw * 1000) seconds, in microseconds
symbol_time(sf, bw) == ((2 ^ sf) * 1000) \div bw

calculate_airtime(payload_size, sf, bw) ==
    LET payload_symb_nb ==
            8 + Max(TruncDiv(8 * payload_size - 4 * sf + 28 + 16, 4 * (sf - 2)) * 4, 0)
    IN  (8 + payload_symb_nb) * symbol_time(sf, bw)

\* The AES-128-ECB keystream block S_i of encrypt_payload, byte j: a fixed
\* function of the key and of the A_i block (direction, FCnt, i).
KeyStreamByte(key, direction, fcnt, j) ==
    (key * 7 + direction * 131 + (fcnt % 65536) * 29 + j * 17 + 91) % 256

encrypt_payload(payload, key, fcnt, direction) ==
    [j \in 1 .. Len(payload) |->
        Xor8(payload[j], KeyStreamByte(key, direction, fcnt, j), 8)]

(***************************************************************************)
(* mac_commands.py: the codec                                              *)
(***************************************************************************)
KnownCids == {2, 3, 4, 5, 6, 7, 8}

CID_LENGTHS(cid) ==
    CASE cid = 2 -> 0
      [] cid = 3 -> 4
      [] cid = 4 -> 1
      [] cid = 5 -> 4
      [] cid = 6 -> 0
      [] cid = 7 -> 5
      [] cid = 8 -> 1

\* parse_mac_commands: i is the 0-based read position
RECURSIVE ParseFrom(_, _)
ParseFrom(data, i) ==
    IF i >= Len(data) THEN <<>>
    ELSE LET cid == data[i + 1] IN
         IF cid \notin KnownCids
         THEN ParseFrom(data, i + 1)                     \* "skipping 1 byte"
         ELSE IF i + 1 + CID_LENGTHS(cid) > Len(data)
              THEN <<>>                                  \* payload too short
              ELSE <<[cid |-> cid,
                      payload |-> Slice(data, i + 1, i + 1 + CID_LENGTHS(cid))]>>
                   \o ParseFrom(data, i + 1 + CID_LENGTHS(cid))

parse_mac_commands(data) == ParseFrom(data, 0)

(***************************************************************************)
(* radio_phy.py                                                            *)
(***************************************************************************)
\* A channel of enabled_channels; duty is the duty cycle in percent (0.01 is
\* 1, 0.10 is 10).  enabled_channels is a dict: a sequence in insertion order.
NewChannel(index, freq, dr_min, dr_max, duty) ==
    [index |-> index, freq |-> freq, dr_min |-> dr_min, dr_max |-> dr_max,
     duty |-> duty]

\* RadioPHY.__init__
InitRadio ==
    [enabled_channels |-> << NewChannel(0, 868100000, 0, 5, 1),
                             NewChannel(1, 868300000, 0, 5, 1),
                             NewChannel(2, 868500000, 0, 5, 1) >>,
     current_channel_index |-> 0,
     data_rate |-> 0,
     tx_power |-> 14,
     rx1_dr_offset |-> 0,
     rx2_datarate |-> 0,
     rx2_frequency |-> Rx2DefaultFrequency,
     rx_delay_secs |-> 1,
     nb_trans |-> 3,
     last_snr |-> <<>>,              \* no attribute until a downlink is accepted
     max_duty_cycle |-> <<>>,        \* v of 1 / 2^v, once a DutyCycleReq is applied
     next_tx_time |-> <<>>]          \* defaultdict(lambda: 0.0)

\* list(self.enabled_channels.keys())
ChannelKeys(r) ==
    [i \in 1 .. Len(r.enabled_channels) |-> r.enabled_channels[i].index]

KeySet(r) == {r.enabled_channels[i].index : i \in 1 .. Len(r.enabled_channels)}

\* self.enabled_channels[c] (c is a key)
ChannelOf(r, c) ==
    LET i == CHOOSE i \in 1 .. Len(r.enabled_channels) :
                 r.enabled_channels[i].index = c
    IN  r.enabled_channels[i]

\* self.next_tx_time[c]
NextTxTime(r, c) ==
    IF c \in DOMAIN r.next_tx_time THEN r.next_tx_time[c] ELSE 0

\* get_current_frequency raises KeyError when the current index is no key
CurrentFrequencyRaises(r) == r.current_channel_index \notin KeySet(r)

get_current_frequency(r) == ChannelOf(r, r.current_channel_index).freq

\* get_window_duration(sf, bw): 8 symbols, in microseconds
get_window_duration(sf, bw) == 8 * symbol_time(sf, bw)

set_rx_params(r, rx1_offset, rx2_datarate, rx2_frequency, delay) ==
    [r EXCEPT !.rx1_dr_offset = rx1_offset,
              !.rx2_datarate = rx2_datarate,
              !.rx2_frequency = rx2_frequency,
              !.rx_delay_secs = delay]

\* update_link_adr that stores the NbTrans nibble as it comes
update_link_adr_unclamped(r, data_rate_tx_power, nb_trans) ==
    [r EXCEPT !.data_rate = Hi4(data_rate_tx_power),
              !.tx_power = Lo4(data_rate_tx_power),
              !.nb_trans = nb_trans]

update_link_adr(r, data_rate_tx_power, nb_trans) ==
    [r EXCEPT !.data_rate = Hi4(data_rate_tx_power),
              !.tx_power = Lo4(data_rate_tx_power),
              !.nb_trans = Max(1, Min(nb_trans, 15))]

add_channel(r, index, freq, dr_min, dr_max) ==
    LET duty == IF freq = 869525000 THEN 10 ELSE 1
        ch == NewChannel(index, freq, dr_min, dr_max, duty)
    IN  IF index \in KeySet(r)
        THEN [r EXCEPT !.enabled_channels =
                 [i \in 1 .. Len(r.enabled_channels) |->
                     IF r.enabled_channels[i].index = index
                     THEN ch ELSE r.enabled_channels[i]]]
        ELSE [r EXCEPT !.enabled_channels = Append(r.enabled_channels, ch)]

ChannelMaskKeeps(ch_mask, ch) == ch.index > 15 \/ Bit(ch_mask, ch.index) = 1

\* apply_channel_mask that disables nothing
apply_channel_mask_none(r, ch_mask) == r

apply_channel_mask(r, ch_mask) ==
    LET Keep(ch) == ChannelMaskKeeps(ch_mask, ch)
    IN  [r EXCEPT !.enabled_channels = SelectSeq(r.enabled_channels, Keep)]

rotate_channel(r) ==
    LET available_channels == ChannelKeys(r)
        n == Len(available_channels)
        idx == IF r.current_channel_index \in KeySet(r)
               THEN (CHOOSE i \in 1 .. n :
                        available_channels[i] = r.current_channel_index) - 1
               ELSE 0
    IN  IF n = 0 THEN r
        ELSE [r EXCEPT !.current_channel_index =
                           available_channels[((idx + 1) % n) + 1]]

\* can_transmit returns (ready, wait): has_wait is FALSE for a wait of None
CanTransmitResult(ready, has_wait, wait) ==
    [ready |-> ready, has_wait |-> has_wait, wait |-> wait]

ReadyAt(r, channel_index, now_) == now_ >= NextTxTime(r, channel_index)

\* can_transmit without the duty-cycle test
can_transmit_always(r, channel_index, now_) ==
    IF channel_index \notin KeySet(r)
    THEN CanTransmitResult(FALSE, FALSE, 0)
    ELSE LET channel == ChannelOf(r, channel_index) IN
         IF ~(channel.dr_min <= r.data_rate /\ r.data_rate <= channel.dr_max)
         THEN CanTransmitResult(FALSE, FALSE, 0)
         ELSE CanTransmitResult(TRUE, FALSE, 0)

can_transmit(r, channel_index, now_) ==
    LET ready == ReadyAt(r, channel_index, now_) IN
    IF channel_index \notin KeySet(r)
    THEN CanTransmitResult(FALSE, FALSE, 0)
    ELSE LET channel == ChannelOf(r, channel_index) IN
         IF ~(channel.dr_min <= r.data_rate /\ r.data_rate <= channel.dr_max)
         THEN CanTransmitResult(FALSE, FALSE, 0)
         ELSE IF ready
              THEN CanTransmitResult(TRUE, FALSE, 0)
              ELSE CanTransmitResult(FALSE, TRUE,
                                     NextTxTime(r, channel_index) - now_)

\* airtime_s * (1.0 / duty_cycle - 1.0)
OffTime(airtime, duty) == airtime * ((100 \div duty) - 1)

\* record_transmission with off_time = airtime / duty_cycle
record_transmission_full(r, channel_index, airtime, now_) ==
    LET duty_cycle == ChannelOf(r, channel_index).duty
        off_time == airtime * (100 \div duty_cycle)
    IN  [r EXCEPT !.next_tx_time =
            [c \in (DOMAIN r.next_tx_time) \cup {channel_index} |->
                IF c = channel_index THEN now_ + off_time
                ELSE r.next_tx_time[c]]]

record_transmission(r, channel_index, airtime, now_) ==
    LET duty_cycle == ChannelOf(r, channel_index).duty
        off_time == OffTime(airtime, duty_cycle)
    IN  [r EXCEPT !.next_tx_time =
            [c \in (DOMAIN r.next_tx_time) \cup {channel_index} |->
                IF c = channel_index THEN now_ + off_time
                ELSE r.next_tx_time[c]]]

\* RadioPHY defines neither of the next three; lorawan_stack.py and
\* mac_commands.py call them.
\* get_rx1_datarate: the uplink DR minus rx1_dr_offset, not below 0
get_rx1_datarate(r, uplink_dr_index) == Max(uplink_dr_index - r.rx1_dr_offset, 0)

\* set_max_duty_cycle(1 / 2^val): the radio keeps the value
set_max_duty_cycle(r, val) == [r EXCEPT !.max_duty_cycle = <<val>>]

\* can_transmit_aggregated(airtime): whether the device may transmit at all,
\* and how long to wait otherwise; what it computes is left open
AggregatedResults(allow_wait) ==
    {CanTransmitResult(TRUE, FALSE, 0)}
        \cup (IF allow_wait
              THEN {CanTransmitResult(FALSE, TRUE, w) : w \in AggWaits}
              ELSE {})

(***************************************************************************)
(* mac_commands.py: MACCommandHandler.  A handler state m is the radio and *)
(* the list pending_mac_responses of (cid, payload) pairs.                 *)
(***************************************************************************)
Answer(cid, payload) == [cid |-> cid, payload |-> payload]

QueueAnswer(m, cid, payload) ==
    [m EXCEPT !.pending = Append(m.pending, Answer(cid, payload))]

_handle_link_adr_req(m, cmd) ==
    LET dr_tx == cmd.payload[1]
        ch_mask == FromLittle(Slice(cmd.payload, 1, 3))
        nb_trans == Lo4(cmd.payload[4])
        r1 == update_link_adr(m.radio, dr_tx, nb_trans)
        r2 == apply_channel_mask(r1, ch_mask)
    IN  QueueAnswer([m EXCEPT !.radio = r2], 3, <<LinkAdrStatus>>)

\* the handler without its answer
_handle_duty_cycle_req_silent(m, cmd) ==
    [m EXCEPT !.radio = set_max_duty_cycle(m.radio, cmd.payload[1])]

_handle_duty_cycle_req(m, cmd) ==
    QueueAnswer([m EXCEPT !.radio = set_max_duty_cycle(m.radio, cmd.payload[1])],
                4, <<>>)

_handle_rx_param_setup_req(m, cmd) ==
    LET dl_settings == cmd.payload[1]
        freq == FromLittle(Slice(cmd.payload, 1, 4)) * 100
        rx1_dr_offset == Hi4(dl_settings) % 8
        rx2_dr == Lo4(dl_settings)
    IN  QueueAnswer([m EXCEPT !.radio =
                        set_rx_params(m.radio, rx1_dr_offset, rx2_dr, freq, 1)],
                    5, <<LinkAdrStatus>>)

_handle_new_channel_req(m, cmd) ==
    LET ch_index == cmd.payload[1]
        freq == FromLittle(Slice(cmd.payload, 1, 4)) * 100
        dr_range == cmd.payload[5]
    IN  QueueAnswer([m EXCEPT !.radio =
                        add_channel(m.radio, ch_index, freq, Lo4(dr_range),
                                    Hi4(dr_range))],
                    7, <<LinkAdrStatus>>)

_handle_rx_timing_setup_req(m, cmd) ==
    QueueAnswer([m EXCEPT !.radio.rx_delay_secs = cmd.payload[1]], 8, <<>>)

\* last_snr is kept in tenths of a dB; int() truncates towards zero
_handle_dev_status_req(m, cmd) ==
    LET battery == BatteryStatus
        snr == IF m.radio.last_snr = <<>> THEN 0
               ELSE TruncDiv(m.radio.last_snr[1], 10)
        margin == Max(-32, Min(snr, 31))
    IN  QueueAnswer(m, 6, <<battery, margin % 256>>)

apply_mac_command(m, cmd) ==
    CASE cmd.cid = 3 -> _handle_link_adr_req(m, cmd)
      [] cmd.cid = 4 -> _handle_duty_cycle_req(m, cmd)
      [] cmd.cid = 5 -> _handle_rx_param_setup_req(m, cmd)
      [] cmd.cid = 6 -> _handle_dev_status_req(m, cmd)
      [] cmd.cid = 7 -> _handle_new_channel_req(m, cmd)
      [] cmd.cid = 8 -> _handle_rx_timing_setup_req(m, cmd)
      [] OTHER -> m                       \* no handler (LinkCheckReq)

\* for cmd in commands: apply_mac_command(cmd)
RECURSIVE ApplyAll(_, _)
ApplyAll(m, commands) ==
    IF commands = <<>> THEN m
    ELSE ApplyAll(apply_mac_command(m, Head(commands)), Tail(commands))

\* get_mac_response_payload: the bytes of all pending answers
RECURSIVE ResponseBytes(_)
ResponseBytes(pending) ==
    IF pending = <<>> THEN <<>>
    ELSE <<Head(pending).cid>> \o Head(pending).payload
         \o ResponseBytes(Tail(pending))

(***************************************************************************)
(* The state.                                                              *)
(***************************************************************************)
VARIABLES
    now,                          \* the clock (time.time(), the loop's time)
    radio,                        \* LoRaWANStack.radio
    frame_counter,                \* LoRaWANProtocol.frame_counter
    pending_mac_responses,        \* MACCommandHandler.pending_mac_responses
    pending_mac_response_bytes,   \* LoRaWANStack: <<>> is None
    waiting_for_ack,
    pending_fcnt,                 \* <<>> is None
    ack_event,                    \* "None", or an Event: "clear" or "set"
    rx1_open,
    rx2_open,
    send_lock,                    \* asyncio.Lock: its holder (0: free) and waiters
    pc,                           \* where each calling task is
    loc,                          \* the local variables of each caller's _send
    wtasks,                       \* the RX-window timer tasks that are alive
    log,                          \* what has happened so far (history)
    last_uplink,                  \* the last envelope handed to the gateway
    gateway,                      \* Gateway / GatewayProtocol: clock and downlink tasks
    bus,                          \* MessageBus: subscribers and delivery tasks
    fleet                         \* the stacks subscribed to the bus, by device

\* the stack of the one device whose send cycle is modelled in full
stackVars == <<now, radio, frame_counter, pending_mac_responses,
               pending_mac_response_bytes, waiting_for_ack, pending_fcnt,
               ack_event, rx1_open, rx2_open, send_lock, pc, loc, wtasks, log,
               last_uplink>>

\* the gateway's downlink path, the bus and the devices behind it
netVars == <<gateway, bus, fleet>>

vars == <<stackVars, netVars>>

\* the fields of the device that a downlink can change
deviceVars == <<radio, pending_mac_responses, pending_mac_response_bytes,
                ack_event>>

(***************************************************************************)
(* Downlink frames the network can send.                                   *)
(***************************************************************************)
Mic == <<0, 0, 0, 0>>

\* MHDR | DevAddr (little endian) | FCtrl | FCnt | FOpts | rest | MIC
DownFrame(mhdr, devaddr, fctrl, fcnt, fopts, rest) ==
    <<mhdr>> \o Reverse(devaddr) \o <<fctrl>> \o <<fcnt % 256, fcnt \div 256>>
        \o fopts \o rest \o Mic

UnconfirmedDown == 96         \* MHDR 0x60, MType 0b011
AckBit == 32                  \* FCtrl.ACK

LinkAdrNb1 == <<3, 80, 7, 0, 1>>        \* DR5, TXPower 0, ChMask 0x0007, NbTrans 1
LinkAdrDr7 == <<3, 112, 7, 0, 1>>       \* DR7
LinkAdrMask == <<3, 80, 1, 0, 2>>       \* DR5, ChMask 0x0001: channels 1, 2 off
LinkAdrMask0 == <<3, 0, 0, 0, 1>>       \* DR0, ChMask 0x0000: every channel off
NewChannel3 == <<7, 3, 210, 173, 132, 80>> \* channel 3, 869.525 MHz, DR0..DR5
NewChannel4 == <<7, 4, 24, 79, 132, 85>>    \* channel 4, 867.1 MHz, DR5 only

FrameAck == DownFrame(UnconfirmedDown, DevAddr, AckBit, 0, <<>>, <<>>)
FrameAdrNb1 == DownFrame(UnconfirmedDown, DevAddr, 5, 1, LinkAdrNb1, <<>>)
FrameAckAdrDr7 == DownFrame(UnconfirmedDown, DevAddr, AckBit + 5, 2, LinkAdrDr7, <<>>)
FrameAdrMask == DownFrame(UnconfirmedDown, DevAddr, 5, 3, LinkAdrMask, <<>>)
FrameAdrMask0 == DownFrame(UnconfirmedDown, DevAddr, 5, 12, LinkAdrMask0, <<>>)
FrameNewChannel == DownFrame(UnconfirmedDown, DevAddr, 6, 4, NewChannel3, <<>>)
FrameDevStatus6 ==
    DownFrame(UnconfirmedDown, DevAddr, 6, 10, <<6, 6, 6, 6, 6, 6>>, <<>>)
FrameAdrNewChannel ==
    DownFrame(UnconfirmedDown, DevAddr, 11, 9, LinkAdrNb1 \o NewChannel4, <<>>)
FramePort0 ==
    DownFrame(UnconfirmedDown, DevAddr, 0, 5, <<>>,
              <<0>> \o encrypt_payload(LinkAdrNb1, NwkSKey, 5, 1))
FrameApp == DownFrame(UnconfirmedDown, DevAddr, 0, 6, <<>>, <<1, 170>>)
FrameOther == DownFrame(UnconfirmedDown, OtherDevAddr, AckBit + 5, 7, LinkAdrNb1, <<>>)
FrameJoinAccept == DownFrame(32, DevAddr, AckBit + 5, 8, LinkAdrNb1, <<>>)
FrameShort == <<UnconfirmedDown>> \o Reverse(DevAddr)
FrameTiny == <<UnconfirmedDown, 218>>
\* MHDR, DevAddr, FCtrl with ACK, FCnt and nothing more: 8 bytes, no MIC
FrameAckNoMic == <<UnconfirmedDown>> \o Reverse(DevAddr) \o <<AckBit, 11, 0>>

DownlinkFrames ==
    {FrameAck, FrameAdrNb1, FrameAckAdrDr7, FrameAdrMask, FrameNewChannel,
     FrameAdrNewChannel, FrameDevStatus6,
     FramePort0, FrameApp, FrameOther, FrameJoinAccept, FrameShort, FrameTiny,
     FrameAckNoMic}

DownlinkFreqs == {868100000, 869525000}
DownlinkDataRates == {<<12, 125>>, <<7, 125>>}
SnrValues == {-55}            \* envelope.snr (tenths of a dB) when not dropped

\* An envelope published on the bus; dropped is ChannelSimulator's verdict.
\* Every frame comes at SF12 on both frequencies, the ACK frame also at SF7
\* and lost on the air.
DownlinkEnvelopes ==
    [payload : DownlinkFrames, freq : DownlinkFreqs,
     data_rate : {<<12, 125>>}, snr : SnrValues, dropped : {FALSE}]
    \cup [payload : {FrameAck}, freq : DownlinkFreqs,
          data_rate : DownlinkDataRates, snr : SnrValues, dropped : BOOLEAN]

(***************************************************************************)
(* lorawan_stack.py: the downlink path                                     *)
(***************************************************************************)
\* The device fields _process_downlink reads and writes, as a record d:
\* radio, pending (the handler's list), bytes (pending_mac_response_bytes),
\* ack_event, waiting_for_ack, and on_ack (the calls of ack_callback)
DeviceOf(r, pending, bytes, ev, waiting, calls) ==
    [radio |-> r, pending |-> pending, bytes |-> bytes, ack_event |-> ev,
     waiting_for_ack |-> waiting, on_ack |-> calls, dev_addr |-> DevAddr]

ApplyCommands(d, data) ==
    LET m == ApplyAll([radio |-> d.radio, pending |-> d.pending],
                      parse_mac_commands(data))
    IN  [d EXCEPT !.radio = m.radio, !.pending = m.pending]

\* mac_response = get_mac_response_payload(); if mac_response: queue it
DrainResponses(d) ==
    LET mac_response == ResponseBytes(d.pending)
    IN  [d EXCEPT !.pending = <<>>,
                  !.bytes = IF mac_response # <<>> THEN mac_response ELSE @]

HandleAck(d, fctrl) ==
    IF d.waiting_for_ack /\ Bit(fctrl, 5) = 1
    THEN [d EXCEPT !.ack_event = "set", !.on_ack = @ + 1]
    ELSE d

\* raw_bytes[5] raises IndexError on a frame of 5 bytes
ProcessDownlinkRaisesFor(dev_addr, raw_bytes) ==
    /\ (raw_bytes[1] \div 32) \in {3, 5}
    /\ Reverse(Slice(raw_bytes, 1, 5)) = dev_addr
    /\ Len(raw_bytes) < 6

ProcessDownlinkRaises(raw_bytes) == ProcessDownlinkRaisesFor(DevAddr, raw_bytes)

_process_downlink(d, raw_bytes) ==
    LET mtype == raw_bytes[1] \div 32 IN
    IF mtype \notin {3, 5} THEN d
    ELSE IF Reverse(Slice(raw_bytes, 1, 5)) # d.dev_addr THEN d
    ELSE LET fctrl == raw_bytes[6]
             fopts_len == Lo4(fctrl)
             fcnt == FromLittle(Slice(raw_bytes, 6, 8))
             fopts == Slice(raw_bytes, 8, 8 + fopts_len)
             d1 == IF fopts # <<>> THEN ApplyCommands(d, fopts) ELSE d
             d2 == HandleAck(d1, fctrl)
             fport_index == 8 + fopts_len
             has_frmpayload == fport_index < Len(raw_bytes) - 4
         IN  IF ~has_frmpayload THEN DrainResponses(d2)
             ELSE LET fport == raw_bytes[fport_index + 1]
                      frmpayload == Slice(raw_bytes, fport_index + 1,
                                          Len(raw_bytes) - 4)
                  IN  IF fport = 0
                      THEN DrainResponses(
                               ApplyCommands(d2,
                                   encrypt_payload(frmpayload, NwkSKey, fcnt, 1)))
                      ELSE d2

\* the answer bytes a downlink queues for the next uplink, by itself
QueuedBy(r, raw_bytes) ==
    _process_downlink(DeviceOf(r, <<>>, <<>>, "None", FALSE, 0), raw_bytes).bytes

\* "SF{sf}BW{bw}" of the RX1 data rate the device expects
ExpectedRx1Datr(r) == dr_to_sf_bw(get_rx1_datarate(r, r.data_rate))

\* the window test without the frequency test of RX2
WindowOfAnyRx2(r, open1, open2, envelope) ==
    IF open1 /\ envelope.freq = get_current_frequency(r)
             /\ envelope.data_rate = ExpectedRx1Datr(r)
    THEN "RX1"
    ELSE IF open1 \/ open2
         THEN "RX2"
         ELSE "none"

\* the window test of _receive_downlink_message: "RX1", "RX2" or "none"
WindowOf(r, open1, open2, envelope) ==
    IF open1 /\ envelope.freq = get_current_frequency(r)
             /\ envelope.data_rate = ExpectedRx1Datr(r)
    THEN "RX1"
    ELSE IF open2 /\ envelope.freq = r.rx2_frequency
         THEN "RX2"
         ELSE "none"

\* acceptance without the DevAddr filter
AcceptedByAnyAddr(dev_addr, r, open1, open2, envelope) ==
    /\ Len(envelope.payload) >= 5
    /\ ~envelope.dropped
    /\ ~CurrentFrequencyRaises(r)
    /\ WindowOf(r, open1, open2, envelope) # "none"

\* the envelope gets as far as _process_downlink in the stack of dev_addr
AcceptedBy(dev_addr, r, open1, open2, envelope) ==
    /\ Len(envelope.payload) >= 5
    /\ Reverse(Slice(envelope.payload, 1, 5)) = dev_addr
    /\ ~envelope.dropped
    /\ ~CurrentFrequencyRaises(r)
    /\ WindowOf(r, open1, open2, envelope) # "none"

Accepted(envelope) == AcceptedBy(DevAddr, radio, rx1_open, rx2_open, envelope)

(***************************************************************************)
(* lorawan_protocol.py                                                     *)
(***************************************************************************)
ConfirmedUp == 128            \* MHDR 0x80
UnconfirmedUp == 64           \* MHDR 0x40
FCntWire == 65536             \* frame_counter.to_bytes(2, 'little')

\* build_uplink_frame raises ValueError on more than 15 bytes of FOpts and
\* OverflowError when the counter does not fit the two FCnt bytes
BuildRaises(fopts, fc) == Len(fopts) > 15 \/ fc >= FCntWire

\* build_uplink_frame that advances the counter by two
build_uplink_frame_skip(payload, fport, confirmed, fopts, fc) ==
    [mhdr |-> IF confirmed THEN ConfirmedUp ELSE UnconfirmedUp,
     fctrl |-> Len(fopts),
     fcnt |-> fc,
     fopts |-> fopts,
     fport |-> fport,
     frmpayload |-> encrypt_payload(payload, IF fport = 0 THEN NwkSKey ELSE AppSKey,
                                    fc, 0),
     size |-> 1 + 4 + 1 + 2 + Len(fopts) + 1 + Len(payload) + 4,
     frame_counter |-> fc + 2]

\* The PHYPayload, by its fields; size is len(phy_payload)
build_uplink_frame(payload, fport, confirmed, fopts, fc) ==
    [mhdr |-> IF confirmed THEN ConfirmedUp ELSE UnconfirmedUp,
     fctrl |-> Len(fopts),
     fcnt |-> fc,
     fopts |-> fopts,
     fport |-> fport,
     frmpayload |-> encrypt_payload(payload, IF fport = 0 THEN NwkSKey ELSE AppSKey,
                                    fc, 0),
     size |-> 1 + 4 + 1 + 2 + Len(fopts) + 1 + Len(payload) + 4,
     frame_counter |-> fc + 1]        \* self.frame_counter += 1

NoFrame == build_uplink_frame(<<>>, 0, FALSE, <<>>, 0)

(***************************************************************************)
(* lorawan_stack.py: the send cycle                                        *)
(***************************************************************************)
RunningPCs == {"build", "check", "transmit", "cleanup"}
SuspendedInSend == {"chan_wait", "tx_sleep", "ack_wait", "backoff"}
InSendPCs == RunningPCs \cup SuspendedInSend
TimedPCs == {"chan_wait", "tx_sleep", "backoff"}

\* no coroutine is between two suspension points: the loop can pick a task
LoopFree == \A c \in Callers : pc[c] \notin RunningPCs

InitLocals ==
    [confirmed |-> FALSE, fport |-> 1, max_ack_attempts |-> 1, nb_trans |-> 1,
     uplink_bytes |-> NoFrame, sf |-> 0, bw |-> 0, airtime |-> 0,
     ack_attempt |-> 0, nb_attempt |-> 0, wake |-> 0,
     attempts |-> 0, tx_in_attempt |-> 0]

Release(lock) == [lock EXCEPT !.holder = 0]

\* safe_send without the lock
SafeSendNoLock(c, confirmed) ==
    /\ LoopFree
    /\ pc[c] = "idle"
    /\ loc[c].wake <= now
    /\ log.sends < MaxSends
    /\ loc' = [loc EXCEPT ![c] = [InitLocals EXCEPT !.confirmed = confirmed]]
    /\ log' = [log EXCEPT !.sends = @ + 1]
    /\ send_lock' = [send_lock EXCEPT !.holder = c]
    /\ pc' = [pc EXCEPT ![c] = "build"]
    /\ UNCHANGED <<netVars, now, radio, frame_counter, pending_mac_responses,
                   pending_mac_response_bytes, waiting_for_ack, pending_fcnt,
                   ack_event, rx1_open, rx2_open, wtasks, last_uplink>>

\* safe_send: async with self.send_lock.  A free lock with no waiter is taken
\* at once; otherwise the caller queues.
SafeSend(c, confirmed) ==
    /\ LoopFree
    /\ pc[c] = "idle"
    /\ loc[c].wake <= now
    /\ log.sends < MaxSends
    /\ loc' = [loc EXCEPT ![c] = [InitLocals EXCEPT !.confirmed = confirmed]]
    /\ log' = [log EXCEPT !.sends = @ + 1]
    /\ IF send_lock.holder = 0 /\ send_lock.waiters = <<>>
       THEN /\ send_lock' = [send_lock EXCEPT !.holder = c]
            /\ pc' = [pc EXCEPT ![c] = "build"]
       ELSE /\ send_lock' = [send_lock EXCEPT !.waiters = Append(@, c)]
            /\ pc' = [pc EXCEPT ![c] = "acquire"]
    /\ UNCHANGED <<netVars, now, radio, frame_counter, pending_mac_responses,
                   pending_mac_response_bytes, waiting_for_ack, pending_fcnt,
                   ack_event, rx1_open, rx2_open, wtasks, last_uplink>>

\* the first waiter is woken by the release and takes the lock
Acquire(c) ==
    /\ LoopFree
    /\ pc[c] = "acquire"
    /\ send_lock.holder = 0
    /\ send_lock.waiters # <<>>
    /\ Head(send_lock.waiters) = c
    /\ send_lock' = [holder |-> c, waiters |-> Tail(send_lock.waiters)]
    /\ pc' = [pc EXCEPT ![c] = "build"]
    /\ UNCHANGED <<netVars, now, radio, frame_counter, pending_mac_responses,
                   pending_mac_response_bytes, waiting_for_ack, pending_fcnt,
                   ack_event, rx1_open, rx2_open, loc, wtasks, log, last_uplink>>

\* the build phase that puts whatever is pending into FOpts
BuildFrameAllInFOpts(pending, app_payload, fport, confirmed, fc) ==
    build_uplink_frame(app_payload, fport, confirmed, pending, fc)

\* the build phase that sends app_payload whatever is pending
BuildFrameAppAlways(pending, app_payload, fport, confirmed, fc) ==
    IF pending # <<>> /\ Len(pending) <= 15
    THEN build_uplink_frame(app_payload, fport, confirmed, pending, fc)
    ELSE build_uplink_frame(app_payload, fport, confirmed, <<>>, fc)

\* _send, lines 78-94, the build phase: pending is pending_mac_response_bytes
BuildFrame(pending, app_payload, fport, confirmed, fc) ==
    IF pending # <<>> /\ Len(pending) <= 15
    THEN build_uplink_frame(app_payload, fport, confirmed, pending, fc)
    ELSE IF pending # <<>>
         THEN build_uplink_frame(pending, 0, FALSE, <<>>, fc)
         ELSE build_uplink_frame(app_payload, fport, confirmed, <<>>, fc)

\* _send, lines 69-99: the ACK state, the build phase, SF/BW and airtime
Build(c) ==
    /\ pc[c] = "build"
    /\ LET confirmed == loc[c].confirmed
           fcnt == frame_counter
           in_fopts == pending_mac_response_bytes # <<>>
                           /\ Len(pending_mac_response_bytes) <= 15
           fopts == IF in_fopts THEN pending_mac_response_bytes ELSE <<>>
           frame == BuildFrame(pending_mac_response_bytes, AppPayload,
                               loc[c].fport, confirmed, fcnt)
           build_raises == BuildRaises(fopts, fcnt)
           sfbw == dr_to_sf_bw(radio.data_rate)
           raises == build_raises \/ SfBwRaises(sfbw)
       IN  /\ waiting_for_ack' = IF confirmed THEN TRUE ELSE waiting_for_ack
           /\ pending_fcnt' = IF confirmed THEN <<fcnt>> ELSE pending_fcnt
           /\ ack_event' = IF confirmed THEN "clear" ELSE ack_event
           /\ pending_mac_response_bytes' =
                  IF build_raises /\ ~in_fopts THEN pending_mac_response_bytes
                  ELSE <<>>
           /\ frame_counter' = IF build_raises THEN frame_counter
                               ELSE frame.frame_counter
           /\ log' = [log EXCEPT !.built = IF build_raises THEN @
                                           ELSE Append(@, frame.fcnt % FCntWire),
                                 !.on_ack = 0,
                                 !.owed = IF build_raises THEN @ ELSE <<>>,
                                 !.last_build =
                                     IF build_raises THEN @
                                     ELSE <<[frame |-> frame,
                                             fport |-> loc[c].fport,
                                             had |-> pending_mac_response_bytes,
                                             left |-> pending_mac_response_bytes',
                                             owed |-> log.owed]>>]
           /\ IF raises
              THEN /\ pc' = [pc EXCEPT ![c] = "failed"]
                   /\ send_lock' = Release(send_lock)
                   /\ loc' = [loc EXCEPT ![c] = InitLocals]
              ELSE /\ pc' = [pc EXCEPT ![c] = "check"]
                   /\ send_lock' = send_lock
                   /\ loc' = [loc EXCEPT ![c] =
                         [@ EXCEPT !.max_ack_attempts =
                                       IF confirmed THEN max_ack_retries ELSE 1,
                                   !.nb_trans = IF radio.nb_trans = 0 THEN 1
                                                ELSE radio.nb_trans,
                                   !.uplink_bytes = frame,
                                   !.sf = sfbw[1],
                                   !.bw = sfbw[2],
                                   !.airtime = calculate_airtime(frame.size,
                                                                 sfbw[1], sfbw[2]),
                                   !.ack_attempt = 0,
                                   !.nb_attempt = 0,
                                   !.attempts = 1,
                                   !.tx_in_attempt = 0]]
    /\ UNCHANGED <<netVars, now, radio, pending_mac_responses, rx1_open, rx2_open,
                   wtasks, last_uplink>>

\* the for loop of _check_channel_availability: k channels still to try
RECURSIVE ScanChannels(_, _, _, _, _)
\* the loop keeping the longest of the reported waits
ScanChannelsLongest(r, k, has_wait, shortest, now_) ==
    IF k = 0
    THEN [available |-> FALSE, radio |-> r, has_wait |-> has_wait,
          wait |-> shortest]
    ELSE LET res == can_transmit(r, r.current_channel_index, now_) IN
         IF res.ready
         THEN [available |-> TRUE, radio |-> r, has_wait |-> FALSE, wait |-> 0]
         ELSE ScanChannels(rotate_channel(r), k - 1,
                           has_wait \/ res.has_wait,
                           IF res.has_wait
                           THEN (IF has_wait THEN Max(shortest, res.wait)
                                 ELSE res.wait)
                           ELSE shortest,
                           now_)

ScanChannels(r, k, has_wait, shortest, now_) ==
    IF k = 0
    THEN [available |-> FALSE, radio |-> r, has_wait |-> has_wait,
          wait |-> shortest]
    ELSE LET res == can_transmit(r, r.current_channel_index, now_) IN
         IF res.ready
         THEN [available |-> TRUE, radio |-> r, has_wait |-> FALSE, wait |-> 0]
         ELSE ScanChannels(rotate_channel(r), k - 1,
                           has_wait \/ res.has_wait,
                           IF res.has_wait
                           THEN (IF has_wait THEN Min(shortest, res.wait)
                                 ELSE res.wait)
                           ELSE shortest,
                           now_)

\* a check that finds a channel whatever the plan
_check_channel_availability_open(r, agg, now_) ==
    [available |-> TRUE, radio |-> r, has_wait |-> FALSE, wait |-> 0]

_check_channel_availability(r, agg, now_) ==
    IF ~agg.ready
    THEN [available |-> FALSE, radio |-> r, has_wait |-> TRUE, wait |-> agg.wait]
    ELSE ScanChannels(r, Len(r.enabled_channels), FALSE, 0, now_)

\* one turn of the while loop of _send_nb_transmissions, up to its sleep
Check(c, agg) ==
    /\ pc[c] = "check"
    /\ agg \in AggregatedResults(log.events < MaxEvents)
    /\    LET s == _check_channel_availability(radio, agg, now) IN
          /\ radio' = s.radio
          /\ log' = [log EXCEPT !.events = IF agg.ready THEN @ ELSE @ + 1]
          /\ IF s.available
             THEN /\ pc' = [pc EXCEPT ![c] = "transmit"]
                  /\ loc' = loc
             ELSE /\ pc' = [pc EXCEPT ![c] = "chan_wait"]
                  /\ loc' = [loc EXCEPT ![c].wake =
                                now + (IF s.has_wait THEN s.wait ELSE FallbackWait)]
    /\ UNCHANGED <<netVars, now, frame_counter, pending_mac_responses,
                   pending_mac_response_bytes, waiting_for_ack, pending_fcnt,
                   ack_event, rx1_open, rx2_open, send_lock, wtasks, last_uplink>>

WakeChan(c) ==
    /\ LoopFree
    /\ pc[c] = "chan_wait"
    /\ loc[c].wake <= now
    /\ pc' = [pc EXCEPT ![c] = "check"]
    /\ UNCHANGED <<netVars, now, radio, frame_counter, pending_mac_responses,
                   pending_mac_response_bytes, waiting_for_ack, pending_fcnt,
                   ack_event, rx1_open, rx2_open, send_lock, loc, wtasks, log,
                   last_uplink>>

\* _build_envelope: what the gateway is handed
Envelope(c, tx) ==
    [tx |-> tx,
     caller |-> c,
     payload |-> loc[c].uplink_bytes,
     chan |-> radio.current_channel_index,
     freq |-> get_current_frequency(radio),
     spreading_factor |-> loc[c].sf,
     bandwidth |-> loc[c].bw,
     tx_power |-> radio.tx_power,
     time |-> now]

NoEnvelope ==
    [tx |-> 0, caller |-> 0, payload |-> NoFrame, chan |-> 0, freq |-> 0,
     spreading_factor |-> 0, bandwidth |-> 0, tx_power |-> 0, time |-> 0]

\* the events of the environment in a draw
EventsOf(dropped, backoff, range) ==
    (IF dropped THEN 1 ELSE 0) + (IF backoff = SetMin(range) THEN 0 ELSE 1)

\* create_task of the RX2 timer where the RX1 timer is meant
WindowTaskRx2(tx, kind, at) ==
    [tx |-> tx, kind |-> "rx2", pc |-> "start", wake |-> at, dur |-> 0]

WindowTask(tx, kind, at) ==
    [tx |-> tx, kind |-> kind, pc |-> "start", wake |-> at, dur |-> 0]

\* _send_nb_transmissions, lines 131-144: envelope, channel simulator, the
\* gateway, the duty-cycle record, the RX1 timer task and the sleep
Transmit(c, dropped, backoff) ==
    /\ pc[c] = "transmit"
    /\ log.events + EventsOf(dropped, backoff, NbTransBackoffRange) <= MaxEvents
    /\ IF CurrentFrequencyRaises(radio)
       THEN /\ pc' = [pc EXCEPT ![c] = "failed"]
            /\ send_lock' = Release(send_lock)
            /\ loc' = [loc EXCEPT ![c] = InitLocals]
            /\ log' = [log EXCEPT !.events =
                          @ + EventsOf(dropped, backoff, NbTransBackoffRange)]
            /\ UNCHANGED <<radio, wtasks, last_uplink>>
       ELSE LET tx == log.tx_count + 1
                chan == radio.current_channel_index
            IN  /\ last_uplink' = IF dropped THEN last_uplink ELSE Envelope(c, tx)
                /\ radio' = record_transmission(radio, chan, loc[c].airtime, now)
                /\ wtasks' = wtasks \cup {WindowTask(tx, "rx1", now)}
                /\ loc' = [loc EXCEPT
                      ![c].wake = now + radio.rx_delay_secs * Sec + Sec + backoff,
                      ![c].tx_in_attempt = @ + 1]
                /\ log' = [log EXCEPT
                      !.tx_count = tx,
                      !.events = @ + EventsOf(dropped, backoff, NbTransBackoffRange),
                      !.tx_on = [ch \in (DOMAIN @) \cup {chan} |->
                                    IF ch = chan
                                    THEN [time |-> now,
                                          airtime |-> loc[c].airtime,
                                          sf |-> loc[c].sf,
                                          bw |-> loc[c].bw,
                                          dr_min |-> ChannelOf(radio, chan).dr_min,
                                          dr_max |-> ChannelOf(radio, chan).dr_max,
                                          duty |-> ChannelOf(radio, chan).duty,
                                          ready_at |-> NextTxTime(radio, chan),
                                          prev |-> IF chan \in DOMAIN @
                                                   THEN <<@[chan].time,
                                                          @[chan].airtime,
                                                          @[chan].duty>>
                                                   ELSE <<>>]
                                    ELSE @[ch]]]
                /\ pc' = [pc EXCEPT ![c] = "tx_sleep"]
                /\ send_lock' = send_lock
    /\ UNCHANGED <<netVars, now, frame_counter, pending_mac_responses,
                   pending_mac_response_bytes, waiting_for_ack, pending_fcnt,
                   ack_event, rx1_open, rx2_open>>

\* What "await self.uplink_interface(envelope)" can do: the gateway sends the
\* datagram; the gateway has no protocol or transport yet, or the socket
\* reports an error (send_uplink_async and GatewayProtocol.send log and
\* return); or the callback raises.
UplinkOutcomes == {"sent", "udp_failed", "raises"}

\* One transmission of _send_nb_transmissions with the outcome of the uplink
\* callback: an exception of the callback leaves _send_nb_transmissions, _send
\* and safe_send at the await, before record_transmission.
Handover(c, outcome, backoff) ==
    IF outcome = "raises"
    THEN /\ pc[c] = "transmit"
         /\ log.events < MaxEvents
         /\ pc' = [pc EXCEPT ![c] = "failed"]
         /\ send_lock' = Release(send_lock)
         /\ loc' = [loc EXCEPT ![c] = InitLocals]
         /\ log' = [log EXCEPT !.events = @ + 1]
         /\ UNCHANGED <<netVars, now, frame_counter, pending_mac_responses,
                        pending_mac_response_bytes, waiting_for_ack,
                        pending_fcnt, ack_event, rx1_open, rx2_open, radio,
                        wtasks, last_uplink>>
    ELSE Transmit(c, outcome = "udp_failed", backoff)

\* _send without "if self.ack_event.is_set(): break"
AfterTransmissionsNoBreak(c) ==
    IF ~loc[c].confirmed THEN "cleanup"
    ELSE IF ack_event = "None" THEN "failed"
    ELSE "ack_wait"

\* _send, lines 106-111, after _send_nb_transmissions has returned: the next
\* position of the caller
AfterTransmissions(c) ==
    IF ~loc[c].confirmed THEN "cleanup"
    ELSE IF ack_event = "None" THEN "failed"        \* None.is_set()
    ELSE IF ack_event = "set" THEN "cleanup"
    ELSE "ack_wait"

\* the for loop of _send without its range
NextAttemptForever(c) ==
    /\ pc' = [pc EXCEPT ![c] = "check"]
    /\ loc' = [loc EXCEPT ![c].ack_attempt = @ + 1,
                          ![c].nb_attempt = 0,
                          ![c].attempts = @ + 1,
                          ![c].tx_in_attempt = 0]

\* the next turn of "for ack_attempt in range(max_ack_attempts)"
NextAttempt(c) ==
    IF loc[c].ack_attempt + 1 < loc[c].max_ack_attempts
    THEN /\ pc' = [pc EXCEPT ![c] = "check"]
         /\ loc' = [loc EXCEPT ![c].ack_attempt = @ + 1,
                               ![c].nb_attempt = 0,
                               ![c].attempts = @ + 1,
                               ![c].tx_in_attempt = 0]
    ELSE /\ pc' = [pc EXCEPT ![c] = "cleanup"]
         /\ loc' = loc

\* _send_nb_transmissions, lines 145-148, after the sleep: rotate, leave the
\* loop on an ACK, else the next repetition
WakeTx(c) ==
    /\ LoopFree
    /\ pc[c] = "tx_sleep"
    /\ loc[c].wake <= now
    /\ radio' = rotate_channel(radio)
    /\ IF loc[c].confirmed /\ ack_event = "None"
       THEN /\ pc' = [pc EXCEPT ![c] = "failed"]
            /\ send_lock' = Release(send_lock)
            /\ loc' = [loc EXCEPT ![c] = InitLocals]
       ELSE IF ~(loc[c].confirmed /\ ack_event = "set")
                 /\ loc[c].nb_attempt + 1 < loc[c].nb_trans
            THEN /\ pc' = [pc EXCEPT ![c] = "check"]
                 /\ loc' = [loc EXCEPT ![c].nb_attempt = @ + 1]
                 /\ send_lock' = send_lock
            ELSE /\ pc' = [pc EXCEPT ![c] = AfterTransmissions(c)]
                 /\ loc' = [loc EXCEPT ![c].wake =
                               now + radio.rx_delay_secs * Sec + AckTimeoutExtra]
                 /\ send_lock' = send_lock
    /\ UNCHANGED <<netVars, now, frame_counter, pending_mac_responses,
                   pending_mac_response_bytes, waiting_for_ack, pending_fcnt,
                   ack_event, rx1_open, rx2_open, wtasks, log, last_uplink>>

\* _handle_ack_timeout_and_backoff: wait_for(ack_event.wait(), timeout) ends
\* on the event (then the next attempt follows at once) or on the timeout
AckWait(c, backoff) ==
    /\ LoopFree
    /\ pc[c] = "ack_wait"
    /\ log.events + EventsOf(FALSE, backoff, RetryBackoffRange) <= MaxEvents
    /\ log' = [log EXCEPT !.events = @ + EventsOf(FALSE, backoff, RetryBackoffRange)]
    /\ IF ack_event = "set"
       THEN NextAttempt(c)
       ELSE /\ loc[c].wake <= now
            /\ pc' = [pc EXCEPT ![c] = "backoff"]
            /\ loc' = [loc EXCEPT ![c].wake =
                          now + backoff * (loc[c].ack_attempt + 1)]
    /\ UNCHANGED <<netVars, now, radio, frame_counter, pending_mac_responses,
                   pending_mac_response_bytes, waiting_for_ack, pending_fcnt,
                   ack_event, rx1_open, rx2_open, send_lock, wtasks, last_uplink>>

Backoff(c) ==
    /\ LoopFree
    /\ pc[c] = "backoff"
    /\ loc[c].wake <= now
    /\ NextAttempt(c)
    /\ UNCHANGED <<netVars, now, radio, frame_counter, pending_mac_responses,
                   pending_mac_response_bytes, waiting_for_ack, pending_fcnt,
                   ack_event, rx1_open, rx2_open, send_lock, wtasks, log,
                   last_uplink>>

\* _send, lines 113-115, the return, the release of the lock, and
\* run_uplink_cycle's sleep(send_interval)
Cleanup(c) ==
    /\ pc[c] = "cleanup"
    /\ waiting_for_ack' = FALSE
    /\ pending_fcnt' = <<>>
    /\ ack_event' = "None"
    /\ send_lock' = Release(send_lock)
    /\ pc' = [pc EXCEPT ![c] = "idle"]
    /\ loc' = [loc EXCEPT ![c] = [InitLocals EXCEPT !.wake = now + SendInterval]]
    /\ log' = [log EXCEPT !.returned = @ + 1]
    /\ UNCHANGED <<netVars, now, radio, frame_counter, pending_mac_responses,
                   pending_mac_response_bytes, rx1_open, rx2_open, wtasks,
                   last_uplink>>

\* a cancellation that unwinds no lock: the holder keeps it
ShutdownKeepsLock ==
    /\ LoopFree
    /\ \E c \in Callers : pc[c] \in SuspendedInSend
    /\ log.events < MaxEvents
    /\ send_lock' = [send_lock EXCEPT !.waiters = <<>>]
    /\ pc' = [c \in Callers |-> IF pc[c] = "failed" THEN "failed" ELSE "cancelled"]
    /\ loc' = [c \in Callers |-> InitLocals]
    /\ log' = [log EXCEPT !.events = @ + 1]
    /\ UNCHANGED <<netVars, now, radio, frame_counter, pending_mac_responses,
                   pending_mac_response_bytes, waiting_for_ack, pending_fcnt,
                   ack_event, rx1_open, rx2_open, wtasks, last_uplink>>

\* main.shutdown: task.cancel() of every device task.  CancelledError is
\* raised at the suspension point of each: a task inside _send leaves
\* "async with" (the lock is released, the cleanup of _send is skipped), a
\* task queued on the lock leaves the queue, a task in sleep(send_interval)
\* ends.  The RX-window timer tasks are not in the list and run on.
Shutdown ==
    /\ LoopFree
    /\ \E c \in Callers : pc[c] \in SuspendedInSend
    /\ log.events < MaxEvents
    /\ send_lock' = [holder |-> 0, waiters |-> <<>>]
    /\ pc' = [c \in Callers |-> IF pc[c] = "failed" THEN "failed" ELSE "cancelled"]
    /\ loc' = [c \in Callers |-> InitLocals]
    /\ log' = [log EXCEPT !.events = @ + 1]
    /\ UNCHANGED <<netVars, now, radio, frame_counter, pending_mac_responses,
                   pending_mac_response_bytes, waiting_for_ack, pending_fcnt,
                   ack_event, rx1_open, rx2_open, wtasks, last_uplink>>

(***************************************************************************)
(* lorawan_stack.py: the RX-window timer tasks                             *)
(***************************************************************************)
\* The first step of _control_tx1_window / _control_tx2_window: the delay and
\* the window duration are read, then the task sleeps.  A data rate without
\* SF/BW (or with BW 0) makes get_window_duration raise: the task ends.
WindowStart(t) ==
    /\ LoopFree
    /\ t \in wtasks
    /\ t.pc = "start"
    /\ LET sfbw == IF t.kind = "rx1" THEN dr_to_sf_bw(radio.data_rate)
                   ELSE dr_to_sf_bw(radio.rx2_datarate)
           delay == IF t.kind = "rx1"
                    THEN radio.rx_delay_secs * Sec - JitterTolerance
                    ELSE Sec - JitterTolerance
       IN  wtasks' = IF SfBwRaises(sfbw) THEN wtasks \ {t}
                     ELSE (wtasks \ {t}) \cup
                          {[t EXCEPT !.pc = "wait_open",
                                     !.wake = now + Max(delay, 0),
                                     !.dur = get_window_duration(sfbw[1], sfbw[2])]}
    /\ UNCHANGED <<netVars, now, radio, frame_counter, pending_mac_responses,
                   pending_mac_response_bytes, waiting_for_ack, pending_fcnt,
                   ack_event, rx1_open, rx2_open, send_lock, pc, loc, log,
                   last_uplink>>

\* the window opens; the RX1 task spawns the RX2 task
WindowOpen(t) ==
    /\ LoopFree
    /\ t \in wtasks
    /\ t.pc = "wait_open"
    /\ t.wake <= now
    /\ rx1_open' = IF t.kind = "rx1" THEN TRUE ELSE rx1_open
    /\ rx2_open' = IF t.kind = "rx2" THEN TRUE ELSE rx2_open
    /\ wtasks' = (wtasks \ {t})
                    \cup {[t EXCEPT !.pc = "wait_close",
                                    !.wake = now + JitterTolerance + t.dur]}
                    \cup (IF t.kind = "rx1" THEN {WindowTask(t.tx, "rx2", now)}
                          ELSE {})
    /\ log' = [log EXCEPT !.rx1_tx = IF t.kind = "rx1" THEN t.tx ELSE @,
                          !.rx2_tx = IF t.kind = "rx2" THEN t.tx ELSE @]
    /\ UNCHANGED <<netVars, now, radio, frame_counter, pending_mac_responses,
                   pending_mac_response_bytes, waiting_for_ack, pending_fcnt,
                   ack_event, send_lock, pc, loc, last_uplink>>

WindowClose(t) ==
    /\ LoopFree
    /\ t \in wtasks
    /\ t.pc = "wait_close"
    /\ t.wake <= now
    /\ rx1_open' = IF t.kind = "rx1" THEN FALSE ELSE rx1_open
    /\ rx2_open' = IF t.kind = "rx2" THEN FALSE ELSE rx2_open
    /\ wtasks' = wtasks \ {t}
    /\ UNCHANGED <<netVars, now, radio, frame_counter, pending_mac_responses,
                   pending_mac_response_bytes, waiting_for_ack, pending_fcnt,
                   ack_event, send_lock, pc, loc, log, last_uplink>>

(***************************************************************************)
(* lorawan_stack.py: _receive_downlink_message, the bus subscriber.  It    *)
(* has no suspension point: one step.                                      *)
(***************************************************************************)
ReceiveDownlink(envelope) ==
    /\ LoopFree
    /\ UNCHANGED <<netVars, pc, now, wtasks, frame_counter, waiting_for_ack, pending_fcnt,
                   rx1_open, rx2_open, send_lock, loc, last_uplink>>
    /\ IF Accepted(envelope) /\ ~ProcessDownlinkRaises(envelope.payload)
       THEN /\ log.events < MaxEvents
            /\ LET d == _process_downlink(
                            DeviceOf([radio EXCEPT !.last_snr = <<envelope.snr>>],
                                     pending_mac_responses,
                                     pending_mac_response_bytes, ack_event,
                                     waiting_for_ack, log.on_ack),
                            envelope.payload)
               IN  /\ radio' = d.radio
                   /\ pending_mac_responses' = d.pending
                   /\ pending_mac_response_bytes' = d.bytes
                   /\ ack_event' = d.ack_event
                   /\ log' = [log EXCEPT !.events = @ + 1,
                                         !.downlinks = @ + 1,
                                         !.on_ack = d.on_ack,
                                         !.owed = IF d.bytes = pending_mac_response_bytes
                                                         /\ d.pending = pending_mac_responses
                                                  THEN @
                                                  ELSE Append(@, QueuedBy(
                                                      [radio EXCEPT !.last_snr = <<envelope.snr>>],
                                                      envelope.payload))]
       ELSE IF Accepted(envelope)
            THEN /\ log.events < MaxEvents
                 /\ radio' = [radio EXCEPT !.last_snr = <<envelope.snr>>]
                 /\ log' = [log EXCEPT !.events = @ + 1]
                 /\ UNCHANGED <<pending_mac_responses,
                                pending_mac_response_bytes, ack_event>>
            ELSE UNCHANGED <<radio, pending_mac_responses,
                             pending_mac_response_bytes, ack_event, log>>

(***************************************************************************)
(* The clock.  A task whose timer has expired runs before time moves on;   *)
(* time then moves to the next timer.                                      *)
(***************************************************************************)
CanStillSend(c) == pc[c] = "idle" /\ log.sends < MaxSends

Deadlines ==
    {loc[c].wake : c \in {x \in Callers : pc[x] \in TimedPCs \/ CanStillSend(x)
                                          \/ (pc[x] = "ack_wait")}}
        \cup {t.wake : t \in {x \in wtasks : x.pc # "start"}}

SomethingReady ==
    \/ \E c \in Callers :
          \/ (pc[c] \in TimedPCs \/ CanStillSend(c) \/ pc[c] = "ack_wait")
                /\ loc[c].wake <= now
          \/ pc[c] = "ack_wait" /\ ack_event = "set"
          \/ pc[c] = "acquire" /\ send_lock.holder = 0
                /\ Head(send_lock.waiters) = c
    \/ \E t \in wtasks : t.pc = "start" \/ t.wake <= now

AdvanceTime(limit) ==
    /\ LoopFree
    /\ ~SomethingReady
    /\ Deadlines # {}
    /\ SetMin(Deadlines) <= limit
    /\ now' = SetMin(Deadlines)
    /\ UNCHANGED <<netVars, radio, frame_counter, pending_mac_responses,
                   pending_mac_response_bytes, waiting_for_ack, pending_fcnt,
                   ack_event, rx1_open, rx2_open, send_lock, pc, loc, wtasks,
                   log, last_uplink>>

(***************************************************************************)
(* gateway.py: the concentrator counter and the scheduled downlinks.       *)
(* The counter has 32 bits; a time in microseconds is a pair <<hi, lo>> of *)
(* value hi * 2^16 + lo with 0 <= lo < 2^16, and a counter value has       *)
(* hi < 2^16 as well.                                                      *)
(***************************************************************************)
Half == 65536                 \* 2**32 is Half * Half

NormT(hi, lo) == <<hi + (lo \div Half), lo % Half>>
AddT(a, b) == NormT(a[1] + b[1], a[2] + b[2])
LeqT(a, b) == a[1] < b[1] \/ (a[1] = b[1] /\ a[2] <= b[2])
Us(n) == <<n \div Half, n % Half>>

\* Gateway.get_concentrator_tmst: int(elapsed * 1_000_000) % (2**32)
get_concentrator_tmst(elapsed) == <<elapsed[1] % Half, elapsed[2]>>

\* the wait without the modulus: nothing to wait for a past timestamp
WaitUsSigned(timestamp, now_tmst) ==
    IF LeqT(timestamp, now_tmst) THEN <<0, 0>>
    ELSE LET lo == timestamp[2] - now_tmst[2]
             borrow == IF lo < 0 THEN 1 ELSE 0
         IN  <<timestamp[1] - now_tmst[1] - borrow, lo + borrow * Half>>

\* wait_us = (envelope.timestamp - now_tmst) % (2**32)
WaitUs(timestamp, now_tmst) ==
    LET lo == timestamp[2] - now_tmst[2]
        borrow == IF lo < 0 THEN 1 ELSE 0
    IN  <<(timestamp[1] - now_tmst[1] - borrow + Half) % Half, lo + borrow * Half>>

Devices == 1 .. NumDevices

\* the DevAddr of the k-th device of the configuration: 26011BDA, 26011BDB, ...
DevAddrOf(k) == <<38, 1, 27, 217 + k>>

InitGateway ==
    [elapsed |-> <<0, 0>>,        \* time.monotonic() - concentrator_start_time
     tasks |-> {},                \* the _handle_scheduled_downlink tasks
     published |-> <<>>,          \* history: what was handed to the bus, and when
     arrivals |-> 0,
     gaps |-> 0]

\* MessageBus after setup_devices: every stack has subscribed
InitBus ==
    [subscribers |-> [k \in Devices |-> k],
     tasks |-> <<>>,              \* the subscriber tasks created and not yet run
     done |-> {},                 \* history: the subscriber tasks that have run
     twice |-> FALSE]             \* history: a subscriber got a message again

\* the stack of a device, reduced to what a downlink reads and writes
InitFleet ==
    [k \in Devices |->
        [dev |-> [DeviceOf(InitRadio, <<>>, <<>>, "None", FALSE, 0)
                     EXCEPT !.dev_addr = DevAddrOf(k)],
         rx1_open |-> FALSE,
         rx2_open |-> FALSE,
         frame_counter |-> 0,
         stage |-> "idle",        \* of run_uplink_cycle: idle, sending, returned, failed
         win |-> 0]]              \* of the window timers of the transmission

\* the offsets of txpk.tmst from the counter, as the network server sets them:
\* now, one second ahead, one microsecond in the past
TmstOffsets == {Us(0), Us(1000000), <<Half - 1, Half - 1>>}
GapUs == 400000               \* a stretch without any event

\* the downlinks of the network server for device k
NetFrames(k) ==
    {DownFrame(UnconfirmedDown, DevAddrOf(k), AckBit + 5, 1, LinkAdrNb1, <<>>),
     <<UnconfirmedDown>> \o Reverse(DevAddrOf(k))}

\* datagram_received of a PULL_RESP: the envelope and its task
PullResp(payload, freq, offset) ==
    /\ gateway.arrivals < MaxPullResp
    /\ gateway' = [gateway EXCEPT
          !.arrivals = @ + 1,
          !.tasks = @ \cup
              {[n |-> gateway.arrivals + 1,
                envelope |->
                    [payload |-> payload, freq |-> freq, data_rate |-> <<12, 125>>,
                     timestamp |-> get_concentrator_tmst(
                         AddT(get_concentrator_tmst(gateway.elapsed), offset))],
                pc |-> "new",
                wake |-> <<0, 0>>,
                arrived |-> gateway.elapsed]}]
    /\ UNCHANGED <<stackVars, bus, fleet>>

\* MessageBus.publish without its loop: only the first subscriber gets a task
publish_first(b, message, n) ==
    [b EXCEPT !.tasks = @ \o
        [i \in 1 .. Min(1, Len(b.subscribers)) |->
            [pub |-> n, sub |-> b.subscribers[i], message |-> message]]]

\* MessageBus.publish: create_task(subscriber(message)) for every subscriber
publish(b, message, n) ==
    [b EXCEPT !.tasks = @ \o
        [i \in 1 .. Len(b.subscribers) |->
            [pub |-> n, sub |-> b.subscribers[i], message |-> message]]]

\* await self.downlink_handler(envelope): handle_downlink publishes
HandDown(t) ==
    /\ bus' = publish(bus, t.envelope, t.n)
    /\ gateway' = [gateway EXCEPT
          !.tasks = @ \ {t},
          !.published = Append(@, [n |-> t.n,
                                   timestamp |-> t.envelope.timestamp,
                                   arrived |-> t.arrived,
                                   at |-> gateway.elapsed])]

\* _handle_scheduled_downlink up to its sleep, or to the end without one
ScheduleDownlink(t) ==
    /\ t \in gateway.tasks
    /\ t.pc = "new"
    /\ LET now_tmst == get_concentrator_tmst(gateway.elapsed)
           wait_us == WaitUs(t.envelope.timestamp, now_tmst)
       IN  IF wait_us # <<0, 0>>
           THEN /\ gateway' = [gateway EXCEPT !.tasks = (@ \ {t}) \cup
                       {[t EXCEPT !.pc = "sleep",
                                  !.wake = AddT(gateway.elapsed, wait_us)]}]
                /\ bus' = bus
           ELSE HandDown(t)
    /\ UNCHANGED <<stackVars, fleet>>

\* _handle_scheduled_downlink after its sleep
WakeDownlink(t) ==
    /\ t \in gateway.tasks
    /\ t.pc = "sleep"
    /\ LeqT(t.wake, gateway.elapsed)
    /\ HandDown(t)
    /\ UNCHANGED <<stackVars, fleet>>

(***************************************************************************)
(* message_bus.py and the subscribers: a subscriber task is                *)
(* _receive_downlink_message of one stack, which has no suspension point.  *)
(***************************************************************************)
RemoveAt(seq, i) == SubSeq(seq, 1, i - 1) \o SubSeq(seq, i + 1, Len(seq))

\* what _receive_downlink_message of the stack f does with an envelope
OutcomeOf(f, envelope) ==
    IF Len(envelope.payload) < 5 THEN "ignored"
    ELSE IF Reverse(Slice(envelope.payload, 1, 5)) # f.dev.dev_addr THEN "ignored"
    ELSE IF envelope.dropped THEN "dropped"
    ELSE IF CurrentFrequencyRaises(f.dev.radio) THEN "raised"      \* KeyError
    ELSE IF WindowOf(f.dev.radio, f.rx1_open, f.rx2_open, envelope) = "none"
         THEN "ignored"
    ELSE IF ProcessDownlinkRaisesFor(f.dev.dev_addr, envelope.payload)
         THEN "raised"                                             \* IndexError
    ELSE "processed"

\* the i-th subscriber task runs
Deliver(i, dropped) ==
    /\ i \in 1 .. Len(bus.tasks)
    /\ LET t == bus.tasks[i]
           k == t.sub
           f == fleet[k]
           envelope == [payload |-> t.message.payload, freq |-> t.message.freq,
                        data_rate |-> t.message.data_rate, snr |-> -55,
                        dropped |-> dropped]
           accepted == AcceptedBy(f.dev.dev_addr, f.dev.radio, f.rx1_open,
                                  f.rx2_open, envelope)
           heard == [f.dev EXCEPT !.radio.last_snr = <<envelope.snr>>]
       IN  /\ fleet' = [fleet EXCEPT ![k].dev =
                           IF ~accepted THEN @
                           ELSE IF ProcessDownlinkRaisesFor(f.dev.dev_addr,
                                                            envelope.payload)
                                THEN heard
                                ELSE _process_downlink(heard, envelope.payload)]
           /\ bus' = [bus EXCEPT
                 !.tasks = RemoveAt(@, i),
                 !.done = @ \cup {[pub |-> t.pub, sub |-> k,
                                   outcome |-> OutcomeOf(f, envelope)]},
                 !.twice = @ \/ (\E e \in bus.done : e.pub = t.pub /\ e.sub = k)]
    /\ UNCHANGED <<stackVars, gateway>>

\* The send cycle of device k as a downlink sees it.  _send of a confirmed
\* uplink up to the first transmission: the ACK state, the frame counter,
\* the queue of answers emptied into the frame
FleetSend(k) ==
    /\ fleet[k].stage = "idle"
    /\ fleet' = [fleet EXCEPT ![k].stage = "sending",
                              ![k].frame_counter = @ + 1,
                              ![k].dev.waiting_for_ack = TRUE,
                              ![k].dev.ack_event = "clear",
                              ![k].dev.on_ack = 0,
                              ![k].dev.bytes = <<>>]
    /\ UNCHANGED <<stackVars, gateway, bus>>

\* the window timers of that transmission: RX1 opens, closes, RX2 opens,
\* closes; they run on whatever becomes of the send
FleetWindow(k) ==
    /\ fleet[k].stage # "idle"
    /\ fleet[k].win < 4
    /\ fleet' = [fleet EXCEPT ![k].win = @ + 1,
                              ![k].rx1_open = (fleet[k].win + 1 = 1),
                              ![k].rx2_open = (fleet[k].win + 1 = 3)]
    /\ UNCHANGED <<stackVars, gateway, bus>>

\* the return of _send
FleetReturn(k) ==
    /\ fleet[k].stage = "sending"
    /\ fleet' = [fleet EXCEPT ![k].stage = "returned",
                              ![k].dev.waiting_for_ack = FALSE,
                              ![k].dev.ack_event = "None"]
    /\ UNCHANGED <<stackVars, gateway, bus>>

\* an exception in the send cycle: the task of run_uplink_cycle ends
FleetFail(k) ==
    /\ fleet[k].stage = "sending"
    /\ fleet' = [fleet EXCEPT ![k].stage = "failed"]
    /\ UNCHANGED <<stackVars, gateway, bus>>

\* the gateway's clock: a task that can run does so before time moves on
NetReady ==
    \/ \E t \in gateway.tasks : t.pc = "new" \/ LeqT(t.wake, gateway.elapsed)
    \/ bus.tasks # <<>>

GwAdvance ==
    /\ ~NetReady
    /\ gateway.tasks # {}
    /\ LET t == CHOOSE t \in gateway.tasks :
                    \A u \in gateway.tasks : LeqT(t.wake, u.wake)
       IN  gateway' = [gateway EXCEPT !.elapsed = t.wake]
    /\ UNCHANGED <<stackVars, bus, fleet>>

GwPass ==
    /\ ~NetReady
    /\ gateway.gaps < MaxGaps
    /\ \A t \in gateway.tasks : LeqT(AddT(gateway.elapsed, Us(GapUs)), t.wake)
    /\ gateway' = [gateway EXCEPT !.elapsed = AddT(@, Us(GapUs)),
                                  !.gaps = @ + 1]
    /\ UNCHANGED <<stackVars, bus, fleet>>

(***************************************************************************)
(* The specification.                                                      *)
(***************************************************************************)
InitLog ==
    [built |-> <<>>, sends |-> 0, returned |-> 0, tx_count |-> 0,
     downlinks |-> 0, events |-> 0, on_ack |-> 0,
     rx1_tx |-> 0, rx2_tx |-> 0, tx_on |-> <<>>,
     owed |-> <<>>,           \* the answers queued by each downlink since the last build
     last_build |-> <<>>,     \* the last build: frame, queue before and after
     parsed |-> <<>>]         \* the last FOpts processed, radio before, commands

Init ==
    /\ now = 0
    /\ radio = InitRadio
    /\ frame_counter = 0
    /\ pending_mac_responses = <<>>
    /\ pending_mac_response_bytes = <<>>
    /\ waiting_for_ack = FALSE
    /\ pending_fcnt = <<>>
    /\ ack_event = "None"
    /\ rx1_open = FALSE
    /\ rx2_open = FALSE
    /\ send_lock = [holder |-> 0, waiters |-> <<>>]
    /\ pc = [c \in Callers |-> "idle"]
    /\ loc = [c \in Callers |-> InitLocals]
    /\ wtasks = {}
    /\ log = InitLog
    /\ last_uplink = NoEnvelope
    /\ gateway = InitGateway
    /\ bus = InitBus
    /\ fleet = InitFleet

Next ==
    \/ \E c \in Callers, confirmed \in BOOLEAN : SafeSend(c, confirmed)
    \/ \E c \in Callers : Acquire(c)
    \/ \E c \in Callers : Build(c)
    \/ \E c \in Callers, agg \in AggregatedResults(TRUE) : Check(c, agg)
    \/ \E c \in Callers : WakeChan(c)
    \/ \E c \in Callers, dropped \in BOOLEAN, backoff \in NbTransBackoffRange :
          Transmit(c, dropped, backoff)
    \/ \E c \in Callers : WakeTx(c)
    \/ \E c \in Callers, backoff \in RetryBackoffRange : AckWait(c, backoff)
    \/ \E c \in Callers : Backoff(c)
    \/ \E c \in Callers : Cleanup(c)
    \/ Shutdown
    \/ \E t \in wtasks : WindowStart(t)
    \/ \E t \in wtasks : WindowOpen(t)
    \/ \E t \in wtasks : WindowClose(t)
    \/ \E envelope \in DownlinkEnvelopes : ReceiveDownlink(envelope)
    \/ AdvanceTime(MaxTime)

Spec == Init /\ [][Next]_vars

(***************************************************************************)
(* The device left alone: no downlink arrives, no uplink is lost, every    *)
(* back-off draw is the least of its range, the aggregated check never     *)
(* waits, and nobody shuts the simulator down.  The clock runs long enough *)
(* for a confirmed send at DR0 to use up its retries.                      *)
(***************************************************************************)
NextQuiet ==
    \/ \E c \in Callers, confirmed \in BOOLEAN : SafeSend(c, confirmed)
    \/ \E c \in Callers : Acquire(c)
    \/ \E c \in Callers : Build(c)
    \/ \E c \in Callers : Check(c, CanTransmitResult(TRUE, FALSE, 0))
    \/ \E c \in Callers : WakeChan(c)
    \/ \E c \in Callers : Transmit(c, FALSE, SetMin(NbTransBackoffRange))
    \/ \E c \in Callers : WakeTx(c)
    \/ \E c \in Callers : AckWait(c, SetMin(RetryBackoffRange))
    \/ \E c \in Callers : Backoff(c)
    \/ \E c \in Callers : Cleanup(c)
    \/ \E t \in wtasks : WindowStart(t)
    \/ \E t \in wtasks : WindowOpen(t)
    \/ \E t \in wtasks : WindowClose(t)
    \/ AdvanceTime(MaxQuietTime)

SpecQuiet == Init /\ [][NextQuiet]_vars

(***************************************************************************)
(* The device left alone with a gateway that may fail: the send cycle of   *)
(* SpecQuiet where each hand-over of an uplink to the gateway is sent, is  *)
(* lost at the socket, or raises.                                          *)
(***************************************************************************)
NextUplink ==
    \/ \E c \in Callers, confirmed \in BOOLEAN : SafeSend(c, confirmed)
    \/ \E c \in Callers : Acquire(c)
    \/ \E c \in Callers : Build(c)
    \/ \E c \in Callers : Check(c, CanTransmitResult(TRUE, FALSE, 0))
    \/ \E c \in Callers : WakeChan(c)
    \/ \E c \in Callers, outcome \in UplinkOutcomes :
          Handover(c, outcome, SetMin(NbTransBackoffRange))
    \/ \E c \in Callers : WakeTx(c)
    \/ \E c \in Callers : AckWait(c, SetMin(RetryBackoffRange))
    \/ \E c \in Callers : Backoff(c)
    \/ \E c \in Callers : Cleanup(c)
    \/ \E t \in wtasks : WindowStart(t)
    \/ \E t \in wtasks : WindowOpen(t)
    \/ \E t \in wtasks : WindowClose(t)
    \/ AdvanceTime(MaxQuietTime)

SpecUplink == Init /\ [][NextUplink]_vars

(***************************************************************************)
(* The device under a network that switches every channel off: the send    *)
(* cycle of Spec with downlinks that carry ChMask 0x0000, a new channel or *)
(* an ACK.                                                                 *)
(***************************************************************************)
DarkEnvelopes ==
    [payload : {FrameAdrMask0, FrameNewChannel, FrameAck}, freq : DownlinkFreqs,
     data_rate : {<<12, 125>>}, snr : SnrValues, dropped : {FALSE}]

NextDark ==
    \/ \E c \in Callers, confirmed \in BOOLEAN : SafeSend(c, confirmed)
    \/ \E c \in Callers : Acquire(c)
    \/ \E c \in Callers : Build(c)
    \/ \E c \in Callers, agg \in AggregatedResults(TRUE) : Check(c, agg)
    \/ \E c \in Callers : WakeChan(c)
    \/ \E c \in Callers, dropped \in BOOLEAN, backoff \in NbTransBackoffRange :
          Transmit(c, dropped, backoff)
    \/ \E c \in Callers : WakeTx(c)
    \/ \E c \in Callers, backoff \in RetryBackoffRange : AckWait(c, backoff)
    \/ \E c \in Callers : Backoff(c)
    \/ \E c \in Callers : Cleanup(c)
    \/ Shutdown
    \/ \E t \in wtasks : WindowStart(t)
    \/ \E t \in wtasks : WindowOpen(t)
    \/ \E t \in wtasks : WindowClose(t)
    \/ \E envelope \in DarkEnvelopes : ReceiveDownlink(envelope)
    \/ AdvanceTime(MaxTime)

SpecDark == Init /\ [][NextDark]_vars

(***************************************************************************)
(* The device under a network that sends MAC requests in FOpts together    *)
(* with application data: the send cycle of Spec with downlinks that carry *)
(* a LinkADRReq in FOpts and a payload on FPort 1, a LinkADRReq alone, a   *)
(* payload alone, or an ACK.                                               *)
(***************************************************************************)
FrameAdrApp ==
    DownFrame(UnconfirmedDown, DevAddr, 5, 13, LinkAdrNb1, <<1, 170>>)

MixedEnvelopes ==
    [payload : {FrameAdrApp, FrameAdrNb1, FrameApp, FrameAck},
     freq : DownlinkFreqs, data_rate : {<<12, 125>>}, snr : SnrValues,
     dropped : {FALSE}]

NextMixed ==
    \/ \E c \in Callers, confirmed \in BOOLEAN : SafeSend(c, confirmed)
    \/ \E c \in Callers : Acquire(c)
    \/ \E c \in Callers : Build(c)
    \/ \E c \in Callers, agg \in AggregatedResults(TRUE) : Check(c, agg)
    \/ \E c \in Callers : WakeChan(c)
    \/ \E c \in Callers, dropped \in BOOLEAN, backoff \in NbTransBackoffRange :
          Transmit(c, dropped, backoff)
    \/ \E c \in Callers : WakeTx(c)
    \/ \E c \in Callers, backoff \in RetryBackoffRange : AckWait(c, backoff)
    \/ \E c \in Callers : Backoff(c)
    \/ \E c \in Callers : Cleanup(c)
    \/ Shutdown
    \/ \E t \in wtasks : WindowStart(t)
    \/ \E t \in wtasks : WindowOpen(t)
    \/ \E t \in wtasks : WindowClose(t)
    \/ \E envelope \in MixedEnvelopes : ReceiveDownlink(envelope)
    \/ AdvanceTime(MaxTime)

SpecMixed == Init /\ [][NextMixed]_vars

(***************************************************************************)
(* The RX window timers under a fair event loop.  The device sends         *)
(* unconfirmed uplinks as when left alone; the network answers with an     *)
(* application downlink or with an RXParamSetupReq that names DR7 (FSK,    *)
(* bandwidth 0 in EU868_DR_MAP) for RX2.  The loop runs every task that is *)
(* ready and the clock goes on to the next timer: weak fairness on the     *)
(* tasks' steps and on the clock.  The network owes nothing, so the        *)
(* downlinks have no fairness.                                             *)
(***************************************************************************)
RxParamSetupDr7 == <<5, 7, 210, 173, 132>>  \* RX1 offset 0, RX2 DR7, 869.525 MHz

FrameRxParamDr7 ==
    DownFrame(UnconfirmedDown, DevAddr, 5, 17, RxParamSetupDr7, <<>>)

WindowEnvelopes ==
    [payload : {FrameRxParamDr7, FrameApp}, freq : DownlinkFreqs,
     data_rate : {<<12, 125>>}, snr : SnrValues, dropped : {FALSE}]

SenderSteps ==
    \/ \E c \in Callers : SafeSend(c, FALSE)
    \/ \E c \in Callers : Acquire(c)
    \/ \E c \in Callers : Build(c)
    \/ \E c \in Callers : Check(c, CanTransmitResult(TRUE, FALSE, 0))
    \/ \E c \in Callers : WakeChan(c)
    \/ \E c \in Callers : Transmit(c, FALSE, SetMin(NbTransBackoffRange))
    \/ \E c \in Callers : WakeTx(c)
    \/ \E c \in Callers : Cleanup(c)

WindowSteps ==
    \/ \E t \in wtasks : WindowStart(t)
    \/ \E t \in wtasks : WindowOpen(t)
    \/ \E t \in wtasks : WindowClose(t)

NextWindows ==
    \/ SenderSteps
    \/ WindowSteps
    \/ \E envelope \in WindowEnvelopes : ReceiveDownlink(envelope)
    \/ AdvanceTime(MaxQuietTime)

SpecWindows ==
    /\ Init
    /\ [][NextWindows]_vars
    /\ WF_vars(SenderSteps)
    /\ WF_vars(WindowSteps)
    /\ WF_vars(AdvanceTime(MaxQuietTime))

(***************************************************************************)
(* The device under a network whose LinkADRReq use the whole range of the  *)
(* DataRate and NbTrans nibbles: the send cycle of Spec with downlinks     *)
(* that carry DR8 with NbTrans 0, DR15 with NbTrans 15, DR5 with NbTrans   *)
(* 15, or an ACK.                                                          *)
(***************************************************************************)
LinkAdrDr8Nb0 == <<3, 128, 7, 0, 0>>        \* DR8, ChMask 0x0007, NbTrans 0
LinkAdrDr15Nb15 == <<3, 240, 7, 0, 15>>     \* DR15, ChMask 0x0007, NbTrans 15
LinkAdrNb15 == <<3, 80, 7, 0, 15>>          \* DR5, ChMask 0x0007, NbTrans 15

FrameAdrDr8 == DownFrame(UnconfirmedDown, DevAddr, 5, 14, LinkAdrDr8Nb0, <<>>)
FrameAdrDr15 == DownFrame(UnconfirmedDown, DevAddr, 5, 15, LinkAdrDr15Nb15, <<>>)
FrameAdrNb15 == DownFrame(UnconfirmedDown, DevAddr, 5, 16, LinkAdrNb15, <<>>)

AdrEnvelopes ==
    [payload : {FrameAdrDr8, FrameAdrDr15, FrameAdrNb15, FrameAck},
     freq : DownlinkFreqs, data_rate : {<<12, 125>>, <<7, 125>>},
     snr : SnrValues, dropped : {FALSE}]

NextAdr ==
    \/ \E c \in Callers, confirmed \in BOOLEAN : SafeSend(c, confirmed)
    \/ \E c \in Callers : Acquire(c)
    \/ \E c \in Callers : Build(c)
    \/ \E c \in Callers, agg \in AggregatedResults(TRUE) : Check(c, agg)
    \/ \E c \in Callers : WakeChan(c)
    \/ \E c \in Callers, dropped \in BOOLEAN, backoff \in NbTransBackoffRange :
          Transmit(c, dropped, backoff)
    \/ \E c \in Callers : WakeTx(c)
    \/ \E c \in Callers, backoff \in RetryBackoffRange : AckWait(c, backoff)
    \/ \E c \in Callers : Backoff(c)
    \/ \E c \in Callers : Cleanup(c)
    \/ Shutdown
    \/ \E t \in wtasks : WindowStart(t)
    \/ \E t \in wtasks : WindowOpen(t)
    \/ \E t \in wtasks : WindowClose(t)
    \/ \E envelope \in AdrEnvelopes : ReceiveDownlink(envelope)
    \/ AdvanceTime(MaxTime)

SpecAdr == Init /\ [][NextAdr]_vars

(***************************************************************************)
(* The MAC layer by itself: downlinks that carry MAC requests in FOpts are *)
(* processed one after the other, as if each were accepted in a window.    *)
(***************************************************************************)
LinkAdrExample == <<3, 82, 255, 0, 1>>    \* DR5, TXPower 2, ChMask 0x00FF, NbTrans 1
LinkAdrOdd == <<3, 33, 5, 0, 127>>        \* DR2, TXPower 1, ChMask 0x0005, Redundancy 0x7F
LinkAdrOnly3 == <<3, 80, 8, 0, 0>>        \* DR5, ChMask 0x0008, NbTrans 0
RxParamSetup == <<5, 18, 210, 173, 132>>  \* RX1 offset 1, RX2 DR2, 869.525 MHz

MacPieces ==
    {<<2>>, <<6>>, <<4, 3>>, <<8, 5>>, <<255>>, <<3, 80>>,
     LinkAdrExample, LinkAdrOdd, LinkAdrOnly3, NewChannel3, RxParamSetup}

\* the FOpts of a downlink: one or two pieces
MacStreams == MacPieces \cup {p \o q : p, q \in MacPieces}

\* _process_downlink of a downlink for this device with FOpts and no FPort
ProcessFOpts(fopts) ==
    /\ log.downlinks < MaxRequests
    /\ LET raw_bytes == DownFrame(UnconfirmedDown, DevAddr, Len(fopts),
                                  log.downlinks, fopts, <<>>)
           d == _process_downlink(
                    DeviceOf(radio, pending_mac_responses,
                             pending_mac_response_bytes, ack_event,
                             waiting_for_ack, log.on_ack),
                    raw_bytes)
       IN  /\ radio' = d.radio
           /\ pending_mac_responses' = d.pending
           /\ pending_mac_response_bytes' = d.bytes
           /\ ack_event' = d.ack_event
           /\ log' = [log EXCEPT !.downlinks = @ + 1,
                                 !.on_ack = d.on_ack,
                                 !.parsed = <<[data |-> fopts,
                                               commands |-> parse_mac_commands(fopts),
                                               before |-> radio]>>]
    /\ UNCHANGED <<netVars, now, frame_counter, waiting_for_ack, pending_fcnt, rx1_open,
                   rx2_open, send_lock, pc, loc, wtasks, last_uplink>>

NextMac == \E fopts \in MacStreams : ProcessFOpts(fopts)

SpecMac == Init /\ [][NextMac]_vars

(***************************************************************************)
(* The gateway's downlink path by itself: PULL_RESP datagrams with any of  *)
(* the timestamps, no device transmitting.                                 *)
(***************************************************************************)
NextGateway ==
    \/ \E k \in Devices : \E payload \in NetFrames(k), offset \in TmstOffsets :
          PullResp(payload, Rx2DefaultFrequency, offset)
    \/ \E t \in gateway.tasks : ScheduleDownlink(t)
    \/ \E t \in gateway.tasks : WakeDownlink(t)
    \/ \E i \in 1 .. Len(bus.tasks) : Deliver(i, FALSE)
    \/ GwAdvance
    \/ GwPass

SpecGateway == Init /\ [][NextGateway]_vars

(***************************************************************************)
(* The bus and the devices behind it: downlinks to send at once, devices   *)
(* that transmit, listen, return and fail.                                 *)
(***************************************************************************)
NextBus ==
    \/ \E k \in Devices : \E payload \in NetFrames(k) :
          PullResp(payload, Rx2DefaultFrequency, Us(0))
    \/ \E t \in gateway.tasks : ScheduleDownlink(t)
    \/ \E i \in 1 .. Len(bus.tasks) : Deliver(i, FALSE)
    \/ \E k \in Devices : FleetSend(k)
    \/ \E k \in Devices : FleetWindow(k)
    \/ \E k \in Devices : FleetReturn(k)
    \/ \E k \in Devices : FleetFail(k)

SpecBus == Init /\ [][NextBus]_vars

(***************************************************************************)
(* build_uplink_frame by itself: frames built at counters on both sides of *)
(* the two bytes of the wire FCnt.                                         *)
(***************************************************************************)
FrameCounters == {0, 1, 255, 256, 65534, 65535, 65536, 65537, 100000}
BuildPayloads == {<<>>, AppPayload, <<1, 2, 3>>}
BuildFOpts == {<<>>, <<3, 7>>}

InitBuild ==
    /\ Init!1 /\ Init!2
    /\ frame_counter \in FrameCounters
    /\ Init!4 /\ Init!5 /\ Init!6 /\ Init!7 /\ Init!8 /\ Init!9 /\ Init!10
    /\ Init!11 /\ Init!12 /\ Init!13 /\ Init!14 /\ Init!15 /\ Init!16
    /\ Init!17 /\ Init!18 /\ Init!19

\* one call of build_uplink_frame by caller 1; an exception ends the caller
BuildOnly(payload, fport, confirmed, fopts) ==
    /\ pc[1] = "idle"
    /\ log.sends < MaxSends
    /\ LET frame == build_uplink_frame(payload, fport, confirmed, fopts,
                                       frame_counter)
       IN  IF BuildRaises(fopts, frame_counter)
           THEN /\ pc' = [pc EXCEPT ![1] = "failed"]
                /\ log' = [log EXCEPT !.sends = @ + 1]
                /\ UNCHANGED frame_counter
           ELSE /\ pc' = pc
                /\ frame_counter' = frame.frame_counter
                /\ log' = [log EXCEPT
                      !.sends = @ + 1,
                      !.built = Append(@, frame.fcnt % FCntWire),
                      !.last_build = <<[frame |-> frame, fport |-> fport,
                                        had |-> fopts, left |-> <<>>,
                                        owed |-> <<>>]>>]
    /\ UNCHANGED <<netVars, now, radio, pending_mac_responses,
                   pending_mac_response_bytes, waiting_for_ack, pending_fcnt,
                   ack_event, rx1_open, rx2_open, send_lock, loc, wtasks,
                   last_uplink>>

NextBuild ==
    \E payload \in BuildPayloads, fport \in {0, 1}, confirmed \in BOOLEAN,
       fopts \in BuildFOpts : BuildOnly(payload, fport, confirmed, fopts)

SpecBuild == InitBuild /\ [][NextBuild]_vars

(***************************************************************************)
(* DevStatusReq by itself: downlinks heard at several SNRs that ask for    *)
(* the status in their FOpts.                                              *)
(***************************************************************************)
StatusSnrs == {-200, -100, -55, -9, 0, 9, 55, 100}    \* envelope.snr, tenths of a dB
StatusStreams == {<<6>>, <<6, 6>>, LinkAdrNb1 \o <<6>>, <<6>> \o NewChannel3}

\* _receive_downlink_message from line 271 on, for an accepted downlink
HearStatusReq(snr, fopts) ==
    /\ log.downlinks < MaxRequests
    /\ LET raw_bytes == DownFrame(UnconfirmedDown, DevAddr, Len(fopts),
                                  log.downlinks, fopts, <<>>)
           heard == [radio EXCEPT !.last_snr = <<snr>>]
           d == _process_downlink(
                    DeviceOf(heard, pending_mac_responses,
                             pending_mac_response_bytes, ack_event,
                             waiting_for_ack, log.on_ack),
                    raw_bytes)
       IN  /\ radio' = d.radio
           /\ pending_mac_responses' = d.pending
           /\ pending_mac_response_bytes' = d.bytes
           /\ ack_event' = d.ack_event
           /\ log' = [log EXCEPT !.downlinks = @ + 1,
                                 !.on_ack = d.on_ack,
                                 !.parsed = <<[data |-> fopts,
                                               commands |-> parse_mac_commands(fopts),
                                               before |-> heard]>>]
    /\ UNCHANGED <<netVars, now, frame_counter, waiting_for_ack, pending_fcnt,
                   rx1_open, rx2_open, send_lock, pc, loc, wtasks, last_uplink>>

NextStatus ==
    \E snr \in StatusSnrs, fopts \in StatusStreams : HearStatusReq(snr, fopts)

SpecStatus == Init /\ [][NextStatus]_vars

(***************************************************************************)
(* The channel plan by itself: NewChannelReq and LinkADRReq in any order,  *)
(* and the rotation that follows a transmission.                           *)
(***************************************************************************)
PlanStreams == {NewChannel3, NewChannel4, LinkAdrMask, LinkAdrNb1}

\* self.radio.rotate_channel() after a transmission
Rotate ==
    /\ log.tx_count < MaxRotations
    /\ radio' = rotate_channel(radio)
    /\ log' = [log EXCEPT !.tx_count = @ + 1]
    /\ UNCHANGED <<netVars, now, frame_counter, pending_mac_responses,
                   pending_mac_response_bytes, waiting_for_ack, pending_fcnt,
                   ack_event, rx1_open, rx2_open, send_lock, pc, loc, wtasks,
                   last_uplink>>

NextPlan ==
    \/ \E fopts \in PlanStreams : ProcessFOpts(fopts)
    \/ Rotate

SpecPlan == Init /\ [][NextPlan]_vars

(***************************************************************************)
(* The RX settings by themselves: downlinks whose FOpts carry one or two   *)
(* of RXTimingSetupReq, with several delay bytes, and RXParamSetupReq.     *)
(***************************************************************************)
TimingBytes == {0, 5, 15, 16, 21, 255}     \* the Settings byte of RXTimingSetupReq

RxParamSetupDr5 == <<5, 37, 40, 118, 132>> \* RX1 offset 2, RX2 DR5, 868.3 MHz

RxPieces == {<<8, b>> : b \in TimingBytes} \cup {RxParamSetup, RxParamSetupDr5}

RxStreams == RxPieces \cup {p \o q : p, q \in RxPieces}

NextRx == \E fopts \in RxStreams : ProcessFOpts(fopts)

SpecRx == Init /\ [][NextRx]_vars

(***************************************************************************)
(* The properties                                                          *)
(***************************************************************************)
\* C1: at most one send cycle of the device is executing at any time; the
\* caller inside _send holds send_lock, and a caller queued on the lock has
\* built no frame and made no attempt.
C1_OneSendAtATime ==
    /\ Cardinality({c \in Callers : pc[c] \in InSendPCs}) <= 1
    /\ \A c \in Callers : pc[c] \in InSendPCs => send_lock.holder = c
    /\ \A c \in Callers :
          pc[c] = "acquire" => loc[c].uplink_bytes = NoFrame /\ loc[c].attempts = 0

\* a second safe_send waits on the lock while the first sleeps after a
\* transmission
C1_Witness ==
    \E c, d \in Callers :
        pc[c] = "acquire" /\ pc[d] \in SuspendedInSend /\ log.tx_count >= 1

\* C2: the FCnt values of the frames built so far are 0, 1, 2, ... and
\* frame_counter is the number of frames built: nothing else changes it.
C2_FCntContiguous ==
    /\ frame_counter = Len(log.built)
    /\ \A i \in 1 .. Len(log.built) : log.built[i] = i - 1

\* two frames built, a downlink processed in between
C2_Witness == Len(log.built) >= 2 /\ log.downlinks >= 1

\* C3: once the ACK event of a confirmed send is set, no transmission is
\* handed to the gateway any more and the send goes straight to its return,
\* which leaves waiting_for_ack false.
C3_NoTransmissionAfterAck ==
    [][ack_event = "set" =>
          /\ log.tx_count' = log.tx_count
          /\ \A c \in Callers :
                pc[c] \in InSendPCs =>
                    /\ pc'[c] \in {pc[c], "cleanup", "idle", "cancelled"}
                    /\ (pc'[c] = "idle" => ~waiting_for_ack')]_vars

\* an ACK was accepted during the last send, and that send has returned
C3_Witness ==
    /\ log.on_ack >= 1
    /\ log.returned >= 1
    /\ ~waiting_for_ack
    /\ ack_event = "None"
    /\ \A c \in Callers : pc[c] \notin InSendPCs

\* C4: during one confirmed send on_ack is called once if the ACK event is
\* set, and never more than once.
C4_OnAckOnce ==
    /\ log.on_ack <= 1
    /\ (ack_event = "set" => log.on_ack = 1)

\* C5: a send left without ACK makes at most max_ack_retries attempts when
\* confirmed and one when not, each of at most nb_trans transmissions; a
\* confirmed send runs on an ACK event of its own that is not set, and once
\* no send is in progress the ACK state is cleared.
C5_BoundedAttempts ==
    /\ \A c \in Callers :
          pc[c] \in InSendPCs \ {"build"} =>
              /\ loc[c].attempts <= (IF loc[c].confirmed THEN max_ack_retries ELSE 1)
              /\ loc[c].tx_in_attempt <= radio.nb_trans
              /\ (loc[c].confirmed => ack_event = "clear" /\ waiting_for_ack)
    /\ (\A c \in Callers : pc[c] \notin InSendPCs) =>
          ack_event = "None" /\ ~waiting_for_ack

\* a confirmed send has used up its attempts and returned (every handed
\* transmission so far but one was its own), and the following confirmed
\* send sleeps after its first transmission
C5_Witness ==
    /\ log.returned >= 1
    /\ log.tx_count = max_ack_retries * radio.nb_trans + 1
    /\ \E c \in Callers :
          /\ pc[c] = "tx_sleep"
          /\ loc[c].confirmed
          /\ loc[c].attempts = 1
          /\ ack_event = "clear"

\* C6: when no send cycle is in progress, whatever ended the last one,
\* waiting_for_ack is false and pending_fcnt and ack_event are cleared.
C6_CleanupOnEveryEnd ==
    (\A c \in Callers : pc[c] \notin InSendPCs) =>
        ~waiting_for_ack /\ pending_fcnt = <<>> /\ ack_event = "None"

\* C7: a downlink that arrives outside the open windows (RX1 open with the
\* frequency of the current channel and the data rate of DR(uplink DR -
\* rx1_dr_offset, not below 0), or RX2 open with rx2_frequency) changes
\* nothing: a step that receives a downlink and changes anything receives it
\* in an open window.
C7_DroppedOutsideWindow ==
    [][vars' # vars => \A e \in DownlinkEnvelopes :
          LET rx1_dr == IF radio.data_rate > radio.rx1_dr_offset
                        THEN radio.data_rate - radio.rx1_dr_offset ELSE 0
              in_rx1 == /\ rx1_open
                        /\ radio.current_channel_index \in KeySet(radio)
                        /\ e.freq = ChannelOf(radio, radio.current_channel_index).freq
                        /\ e.data_rate = dr_to_sf_bw(rx1_dr)
              in_rx2 == rx2_open /\ e.freq = radio.rx2_frequency
          IN  ReceiveDownlink(e) => (in_rx1 \/ in_rx2)]_vars

\* only RX1 is open, after a downlink has been processed
C7_Witness ==
    rx1_open /\ ~rx2_open /\ log.downlinks >= 1 /\ radio.last_snr # <<>>

\* C8: no window is open and no window timer runs before the first
\* transmission; the windows that open belong to a transmission already
\* handed over, and the RX2 window of a transmission opens after its RX1
\* window.
C8_WindowsFollowTransmission ==
    /\ log.tx_count = 0 => ~rx1_open /\ ~rx2_open /\ wtasks = {}
    /\ log.rx2_tx <= log.rx1_tx
    /\ log.rx1_tx <= log.tx_count
    /\ \A t \in wtasks :
          /\ 1 <= t.tx /\ t.tx <= log.tx_count
          /\ (t.kind = "rx2" => t.tx <= log.rx1_tx)
    /\ (rx1_open => log.rx1_tx >= 1)
    /\ (rx2_open => log.rx2_tx >= 1)

\* the RX2 window of the second transmission is open
C8_Witness == rx2_open /\ log.rx2_tx >= 2

\* C9: every transmission on a channel came at or after next_tx_time of the
\* channel, and at least T_air * (1/duty_cycle - 1) of the transmission
\* before it on that channel had passed.
C9_DutyCycleRespected ==
    \A ch \in DOMAIN log.tx_on :
        LET e == log.tx_on[ch] IN
        /\ e.ready_at <= e.time
        /\ (e.prev # <<>> =>
               e.time - e.prev[1] >= (e.prev[2] * (100 - e.prev[3])) \div e.prev[3])

\* a channel has carried two transmissions
C9_Witness == \E ch \in DOMAIN log.tx_on : log.tx_on[ch].prev # <<>>

\* C10 as amended: after the last record_transmission(c, T) at t with duty
\* d, while c is enabled and the DR is in its range, can_transmit(c) is not
\* ready with wait t + T*(1/d - 1) - now before that time and ready from
\* then on; with c disabled or the DR outside the range it is not ready and
\* gives no wait.
C10_ReadyAfterOffTime ==
    \A ch \in DOMAIN log.tx_on :
        LET e == log.tx_on[ch]
            due == e.time + (e.airtime * (100 - e.duty)) \div e.duty
            res == can_transmit(radio, ch, now)
            usable == /\ ch \in KeySet(radio)
                      /\ ChannelOf(radio, ch).dr_min <= radio.data_rate
                      /\ radio.data_rate <= ChannelOf(radio, ch).dr_max
        IN  IF usable
            THEN /\ now < due =>
                       ~res.ready /\ res.has_wait /\ res.wait = due - now
                 /\ now >= due => res.ready
            ELSE ~res.ready /\ ~res.has_wait

\* the off time of a transmission has passed and its channel is ready again
C10_Witness ==
    \E ch \in DOMAIN log.tx_on :
        LET e == log.tx_on[ch] IN
        /\ ch \in KeySet(radio)
        /\ now >= e.time + (e.airtime * (100 - e.duty)) \div e.duty
        /\ can_transmit(radio, ch, now).ready

\* C10 as stated: not ready, with the wait, at every time before
\* t + T*(1/d - 1); ready from then on while the DR is in the range.
C10_AsStated ==
    \A ch \in DOMAIN log.tx_on :
        LET e == log.tx_on[ch]
            due == e.time + (e.airtime * (100 - e.duty)) \div e.duty
            res == can_transmit(radio, ch, now)
        IN  /\ now < due => ~res.ready /\ res.has_wait /\ res.wait = due - now
            /\ (/\ now >= due
                /\ ch \in KeySet(radio)
                /\ ChannelOf(radio, ch).dr_min <= radio.data_rate
                /\ radio.data_rate <= ChannelOf(radio, ch).dr_max) => res.ready

\* C11: in every reachable state current_channel_index is a key of
\* enabled_channels, also after a LinkADRReq channel mask and after a
\* NewChannelReq, so that get_current_frequency does not fail.
C11_CurrentChannelEnabled ==
    /\ radio.current_channel_index \in KeySet(radio)
    /\ ~CurrentFrequencyRaises(radio)

\* C12: the SF/BW at which a frame was transmitted on a channel is that of a
\* data rate inside the channel's [dr_min, dr_max] at the moment of the
\* transmission, also when MAC requests were applied since the send began.
C12_DataRateInChannelRange ==
    \A ch \in DOMAIN log.tx_on :
        LET e == log.tx_on[ch] IN
        \E dr \in e.dr_min .. e.dr_max : dr_to_sf_bw(dr) = <<e.sf, e.bw>>

\* s occurs in t as a run of consecutive bytes
Carries(t, s) ==
    \E k \in 0 .. (Len(t) - Len(s)) : \A i \in 1 .. Len(s) : t[k + i] = s[i]

RECURSIVE Concat(_)
Concat(ss) == IF ss = <<>> THEN <<>> ELSE Head(ss) \o Concat(Tail(ss))

\* C13: the uplink built after a downlink with MAC requests was processed
\* carries the answers to it in FOpts (answers that fit the 15 bytes of
\* FOpts), the queue is empty after the build, and an uplink built when no
\* request came since the build before carries no answer.
C13_AnswerInNextUplink ==
    \A i \in 1 .. Len(log.last_build) :
        LET b == log.last_build[i] IN
        /\ Len(Concat(b.owed)) <= 15 =>
               \A k \in 1 .. Len(b.owed) : Carries(b.frame.fopts, b.owed[k])
        /\ (b.owed = <<>> => b.frame.fopts = <<>>)
        /\ b.left = <<>>

\* C14: the uplink built after several downlinks with MAC requests carries
\* the answers to all of them, in the order the requests came.
C14_AnswersAccumulate ==
    \A i \in 1 .. Len(log.last_build) :
        LET b == log.last_build[i]
            all == Concat(b.owed)
        IN  all # <<>> =>
               IF Len(all) <= 15
               THEN b.frame.fopts = all
               ELSE /\ b.frame.fport = 0
                    /\ b.frame.frmpayload =
                           encrypt_payload(all, NwkSKey, b.frame.fcnt, 0)

\* C15: the build phase.  Pending answers of at most 15 bytes go in FOpts
\* and app_payload on the requested port; longer ones go as FRMPayload on
\* port 0 without app_payload; with none pending app_payload goes with
\* empty FOpts.  The queue is empty after the build in each case.
C15_BuildPhase ==
    \A i \in 1 .. Len(log.last_build) :
        LET b == log.last_build[i]
            app == encrypt_payload(AppPayload, AppSKey, b.frame.fcnt, 0)
        IN  /\ b.left = <<>>
            /\ (b.had # <<>> /\ Len(b.had) <= 15) =>
                   /\ b.frame.fopts = b.had
                   /\ b.frame.fport = b.fport
                   /\ b.frame.frmpayload = app
            /\ Len(b.had) > 15 =>
                   /\ b.frame.fopts = <<>>
                   /\ b.frame.fport = 0
                   /\ b.frame.frmpayload =
                          encrypt_payload(b.had, NwkSKey, b.frame.fcnt, 0)
                   /\ b.frame.frmpayload # app
            /\ b.had = <<>> =>
                   /\ b.frame.fopts = <<>>
                   /\ b.frame.fport = b.fport
                   /\ b.frame.frmpayload = app

\* an uplink was built with more than 15 bytes of answers pending, after one
\* with answers in FOpts or with none
C15_Witness ==
    /\ Len(log.built) >= 2
    /\ \E i \in 1 .. Len(log.last_build) : Len(log.last_build[i].had) > 15

\* the LinkADRReq payloads tried on every state
LinkAdrPayloads ==
    {<<dr_tx, lo, hi, red>> : dr_tx \in {0, 82, 117}, lo \in {0, 5, 8, 255},
                              hi \in {0, 128}, red \in {0, 1, 15, 16, 127}}

\* what the claim says of a LinkADRReq with payload p applied to radio r0,
\* giving radio r1
LinkAdrEffect(r0, p, r1) ==
    LET mask == p[2] + 256 * p[3]
        nb == p[4] % 16
    IN  /\ r1.data_rate = p[1] \div 16
        /\ r1.tx_power = p[1] % 16
        /\ r1.nb_trans = (IF nb < 1 THEN 1 ELSE IF nb > 15 THEN 15 ELSE nb)
        /\ KeySet(r1) = {i \in KeySet(r0) : (mask \div (2 ^ i)) % 2 = 1}

RECURSIVE WellFormedPrefix(_)
WellFormedPrefix(data) ==
    IF data = <<>> THEN <<>>
    ELSE IF data[1] \notin 2 .. 8 THEN <<>>
    ELSE LET n == <<0, 4, 1, 4, 0, 5, 1>>[data[1] - 1] IN
         IF Len(data) < 1 + n THEN <<>>
         ELSE <<[cid |-> data[1], payload |-> SubSeq(data, 2, 1 + n)]>>
              \o WellFormedPrefix(SubSeq(data, 2 + n, Len(data)))

\* C17: parse_mac_commands returns the commands of the longest prefix of
\* complete commands with known CIDs, and stops at the first unknown CID or
\* truncated payload.
C17_ParseStopsAtUnknown ==
    \A i \in 1 .. Len(log.parsed) :
        log.parsed[i].commands = WellFormedPrefix(log.parsed[i].data)


\* C18: a PULL_RESP downlink is handed to the message bus when the wait
\* (txpk.tmst - counter at arrival) mod 2^32 microseconds has passed, at once
\* when that wait is 0, and at that moment the concentrator counter equals
\* txpk.tmst; a downlink still asleep wakes at such a moment
C18_PublishedAtTmst ==
    /\ \A i \in 1 .. Len(gateway.published) :
          LET e == gateway.published[i]
              wait_us == WaitUs(e.timestamp, get_concentrator_tmst(e.arrived))
          IN  /\ e.at = AddT(e.arrived, wait_us)
              /\ wait_us = <<0, 0>> => e.at = e.arrived
              /\ get_concentrator_tmst(e.at) = e.timestamp
    /\ \A t \in gateway.tasks :
          t.pc = "sleep" =>
              /\ ~LeqT(t.wake, t.arrived)
              /\ get_concentrator_tmst(t.wake) = t.envelope.timestamp

\* a downlink for one second ahead was published one second after its
\* arrival, the counter having wrapped in between, and another at once
C18_Witness ==
    /\ \E i \in 1 .. Len(gateway.published) :
          LET e == gateway.published[i]
          IN  /\ e.at = AddT(e.arrived, Us(1000000))
              /\ e.arrived[1] < Half
              /\ e.at[1] >= Half
    /\ \E i \in 1 .. Len(gateway.published) :
          gateway.published[i].at[1] = Half - 1


\* the subscriber tasks of publish number n for subscriber k: waiting, run
TasksFor(b, n, k) == {j \in 1 .. Len(b.tasks) : b.tasks[j].pub = n /\ b.tasks[j].sub = k}
RunsFor(b, n, k) == {e \in b.done : e.pub = n /\ e.sub = k}

\* C19: every published message reaches every subscriber exactly once, each
\* delivery being a task of its own (waiting or run, never both, never
\* twice) that carries the message; the step that publishes creates one task
\* per subscriber and runs none of them, and a delivery that runs takes its
\* own task only, whatever became of the others
C19_EverySubscriberOnce ==
    [][/\ ~bus'.twice
       /\ \A i \in 1 .. Len(gateway'.published) :
             \A s \in 1 .. Len(bus'.subscribers) :
                LET n == gateway'.published[i].n
                    k == bus'.subscribers[s]
                IN  /\ Cardinality(TasksFor(bus', n, k))
                          + Cardinality(RunsFor(bus', n, k)) = 1
                    /\ \A j \in TasksFor(bus', n, k) :
                          bus'.tasks[j].message.timestamp
                              = gateway'.published[i].timestamp
       /\ Len(gateway'.published) > Len(gateway.published) =>
             /\ Len(bus'.tasks) = Len(bus.tasks) + Len(bus.subscribers)
             /\ bus'.done = bus.done
             /\ fleet' = fleet
       /\ bus'.done # bus.done =>
             /\ Len(bus'.tasks) = Len(bus.tasks) - 1
             /\ Cardinality(bus'.done) = Cardinality(bus.done) + 1
             /\ gateway' = gateway]_vars

\* the second subscriber has processed a message that still waits for the
\* first one, and a message on which the first subscriber raised has reached
\* the second
C19_Witness ==
    /\ \E e \in bus.done :
          /\ e.sub = 2
          /\ e.outcome = "processed"
          /\ TasksFor(bus, e.pub, 1) # {}
    /\ \E r \in bus.done :
          /\ r.sub = 1
          /\ r.outcome = "raised"
          /\ RunsFor(bus, r.pub, 2) # {}


\* the devices whose stack a step has changed
ChangedDevices == {k \in Devices : fleet'[k] # fleet[k]}

\* C20: a step changes the stack of at most one device; a delivery of a
\* downlink changes only the subscriber it ran in, and only when bytes 1-4
\* of the frame are that device's DevAddr; a device whose send cycle failed
\* or whose processing raised leaves every other device as it was
C20_OnlyMatchingDevice ==
    [][/\ Cardinality(ChangedDevices) <= 1
       /\ \A i \in 1 .. Len(bus.tasks) :
             Deliver(i, FALSE) =>
                \A k \in ChangedDevices :
                   /\ k = bus.tasks[i].sub
                   /\ Len(bus.tasks[i].message.payload) >= 5
                   /\ Reverse(Slice(bus.tasks[i].message.payload, 1, 5))
                          = fleet[k].dev.dev_addr
       /\ \A k \in Devices :
             (fleet[k].stage # "failed" /\ fleet'[k].stage = "failed") =>
                \A j \in Devices \ {k} : fleet'[j] = fleet[j]]_vars

\* both devices listen in RX2; the second has applied its LinkADRReq and got
\* its ACK, the first has ignored that downlink and is as its own send left
\* it, although a frame addressed to it made its processing raise and its
\* send cycle failed
C20_Witness ==
    /\ fleet[1].rx2_open
    /\ fleet[2].rx2_open
    /\ fleet[1].stage = "failed"
    /\ fleet[2].stage = "sending"
    /\ fleet[2].dev.bytes # <<>>
    /\ fleet[2].dev.radio.nb_trans # fleet[1].dev.radio.nb_trans
    /\ \E e \in bus.done :
          /\ e.sub = 2
          /\ e.outcome = "processed"
          /\ \E g \in RunsFor(bus, e.pub, 1) : g.outcome = "ignored"
    /\ \E r \in bus.done : r.sub = 1 /\ r.outcome = "raised"
    /\ fleet[1].dev.bytes = <<>>


\* a frame the device is to drop: too short for MHDR, FHDR and MIC, not a
\* data downlink, or for another DevAddr
Malformed(raw_bytes) ==
    \/ Len(raw_bytes) < 12
    \/ (raw_bytes[1] \div 32) \notin {3, 5}
    \/ Len(raw_bytes) < 5
    \/ Reverse(Slice(raw_bytes, 1, 5)) # DevAddr

\* C21: a malformed downlink is dropped: the step that receives it applies
\* no MAC command (the radio is as before, the SNR of the last downlink
\* aside), sets no ACK, calls on_ack not at all, leaves the pending MAC
\* responses alone and raises nothing out of the handler
C21_MalformedDropped ==
    [][vars' # vars => \A e \in DownlinkEnvelopes :
          (Malformed(e.payload) /\ ReceiveDownlink(e)) =>
              /\ ~(Accepted(e) /\ ProcessDownlinkRaises(e.payload))
              /\ [radio' EXCEPT !.last_snr = radio.last_snr] = radio
              /\ ack_event' = ack_event
              /\ log'.on_ack = log.on_ack
              /\ pending_mac_responses' = pending_mac_responses
              /\ pending_mac_response_bytes' = pending_mac_response_bytes]_vars


\* C22: build_uplink_frame succeeds at every frame counter, the wire FCnt
\* being the low 16 bits of the counter the frame was built at
C22_FCnt32 ==
    /\ pc[1] # "failed"
    /\ log.last_build # <<>> =>
          LET frame == log.last_build[1].frame
          IN  /\ frame.fcnt \in 0 .. FCntWire - 1
              /\ frame.fcnt = (frame_counter - 1) % FCntWire


\* the answers of a DevStatusReq in a run of answer bytes: each is 06, the
\* battery value and a margin byte
RECURSIVE StatusAnswers(_)
StatusAnswers(bytes) ==
    IF bytes = <<>> THEN <<>>
    ELSE IF bytes[1] = 6 /\ Len(bytes) >= 3
         THEN <<[battery |-> bytes[2], margin |-> bytes[3]]>>
                  \o StatusAnswers(Slice(bytes, 3, Len(bytes)))
         ELSE IF bytes[1] \in {3, 5, 7}
              THEN StatusAnswers(Slice(bytes, 2, Len(bytes)))
              ELSE StatusAnswers(Slice(bytes, 1, Len(bytes)))

\* C23: the DevStatusAns queued for a DevStatusReq carries the battery value
\* of the application and, as margin, the SNR of the downlink just accepted,
\* clamped to -32 .. 31 and held in six bits: a byte in 0 .. 63
C23_DevStatusAns ==
    log.parsed # <<>> =>
        LET snr == TruncDiv(log.parsed[1].before.last_snr[1], 10)
            margin == Max(-32, Min(snr, 31))
            answers == StatusAnswers(pending_mac_response_bytes)
        IN  /\ answers # <<>>
            /\ \A i \in 1 .. Len(answers) :
                  /\ answers[i].battery = BatteryStatus
                  /\ answers[i].margin \in 0 .. 63
                  /\ answers[i].margin = (margin + 64) % 64


\* the enabled index that follows c in sorted(keys(enabled_channels)),
\* the smallest one after the largest
NextEnabled(r, c) ==
    LET larger == {k \in KeySet(r) : k > c}
    IN  IF larger # {} THEN SetMin(larger) ELSE SetMin(KeySet(r))

\* C24: a rotation moves the current channel, when it is an enabled one, to
\* the next larger enabled index, from the largest to the smallest
C24_RotateSorted ==
    [][(log'.tx_count # log.tx_count
            /\ radio.current_channel_index \in KeySet(radio)) =>
          radio'.current_channel_index
              = NextEnabled(radio, radio.current_channel_index)]_vars


\* every channel is disabled
Dark(r) == r.enabled_channels = <<>>

\* C25: while every channel is disabled no transmission is made, and a send
\* that looks for a channel stays between the check and its wait, holding
\* the send lock, unless the task is cancelled
C25_NoChannelNoReturn ==
    [][(Dark(radio) /\ Dark(radio')) =>
          /\ log'.tx_count = log.tx_count
          /\ last_uplink' = last_uplink
          /\ \A c \in Callers :
                pc[c] \in {"check", "chan_wait"} =>
                   \/ pc'[c] = "cancelled"
                   \/ /\ pc'[c] \in {"check", "chan_wait"}
                      /\ send_lock'.holder = c
                      /\ pc'[c] = "chan_wait" => loc'[c].wake > now]_vars

\* without a channel a send has waited its fallback second three times at
\* least since its last transmission, the other caller queued on the lock
C25_Witness ==
    /\ Dark(radio)
    /\ \E c \in Callers :
          /\ pc[c] = "chan_wait"
          /\ send_lock.holder = c
          /\ send_lock.waiters # <<>>
          /\ log.tx_count >= 1
          /\ now >= last_uplink.time + 6 * Sec


\* the answer bytes are one answer per command that has a handler, in the
\* order of the commands: 03 07, 04, 05 07, 06 and two bytes, 07 07, 08
RECURSIVE AnswersMatch(_, _)
AnswersMatch(commands, bytes) ==
    IF commands = <<>> THEN bytes = <<>>
    ELSE LET cid == Head(commands).cid
             n == CASE cid \in {3, 5, 7} -> 2
                    [] cid \in {4, 8} -> 1
                    [] cid = 6 -> 3
                    [] OTHER -> 0
         IN  /\ Len(bytes) >= n
             /\ n >= 1 => bytes[1] = cid
             /\ cid \in {3, 5, 7} => bytes[2] = 7
             /\ AnswersMatch(Tail(commands), SubSeq(bytes, n + 1, Len(bytes)))

\* the payloads of the DutyCycleReq among the commands
DutyCycleValues(commands) ==
    [i \in 1 .. Len(SelectSeq(commands, LAMBDA cmd : cmd.cid = 4)) |->
        SelectSeq(commands, LAMBDA cmd : cmd.cid = 4)[i].payload[1]]

C27_CancelReleasesLock ==
    [][/\ \A c \in Callers :
             (pc[c] \in SuspendedInSend /\ pc'[c] = "cancelled") =>
                 /\ send_lock.holder = c
                 /\ send_lock'.holder = 0
                 /\ send_lock'.waiters = <<>>
       /\ send_lock'.holder # 0 => pc'[send_lock'.holder] \in InSendPCs]_vars

\* a confirmed send was cancelled after a transmission, while the other
\* caller was queued on the lock: both are cancelled and the lock is free
C27_Witness ==
    /\ \A c \in Callers : pc[c] = "cancelled"
    /\ send_lock.holder = 0
    /\ waiting_for_ack
    /\ log.tx_count >= 1
    /\ log.sends = 2


\* C28: when handing an uplink to the gateway fails (the gateway received
\* nothing in the step that leaves the transmission), the transmission is
\* still recorded: next_tx_time of the channel used becomes now plus
\* T_air * (1/duty - 1), the RX windows are scheduled and the send goes on to
\* its sleep after the transmission.
C28_FailedHandoverRecorded ==
    [][\A c \in Callers :
          (/\ pc[c] = "transmit"
           /\ pc'[c] # "transmit"
           /\ ~CurrentFrequencyRaises(radio)
           /\ last_uplink' = last_uplink) =>
              LET chan == radio.current_channel_index IN
              /\ NextTxTime(radio', chan) =
                     now + OffTime(loc[c].airtime, ChannelOf(radio, chan).duty)
              /\ \E t \in wtasks' : t \notin wtasks
              /\ pc'[c] = "tx_sleep"]_vars

\* C28 for a hand-over that fails without an exception: the send goes on
C28_SilentFailureRecorded ==
    [][\A c \in Callers :
          (/\ pc[c] = "transmit"
           /\ pc'[c] = "tx_sleep"
           /\ last_uplink' = last_uplink) =>
              LET chan == radio.current_channel_index IN
              /\ NextTxTime(radio', chan) =
                     now + OffTime(loc[c].airtime, ChannelOf(radio, chan).duty)
              /\ \E t \in wtasks' : t \notin wtasks]_vars

\* C29: in a confirmed send every retry attempt (the step that starts an
\* attempt after the first) runs the build phase again: a new frame is built
\* and the MAC responses queued meanwhile are drained into it.
C29_RetryBuildsAgain ==
    [][\A c \in Callers :
          (/\ loc[c].confirmed
           /\ pc[c] \in {"ack_wait", "backoff"}
           /\ pc'[c] = "check"
           /\ loc'[c].ack_attempt = loc[c].ack_attempt + 1) =>
              /\ Len(log'.built) = Len(log.built) + 1
              /\ pending_mac_response_bytes' = <<>>]_vars

\* the enabled channels that support the current data rate
Usable(r) ==
    {k \in KeySet(r) : /\ ChannelOf(r, k).dr_min <= r.data_rate
                       /\ r.data_rate <= ChannelOf(r, k).dr_max}

\* those of them whose off time has passed at time t
ReadyChannels(r, t) == {k \in Usable(r) : NextTxTime(r, k) <= t}

\* how many rotations lead from the current channel to channel k
RotationsTo(r, k) ==
    LET keys == ChannelKeys(r)
        n == Len(keys)
        pos(x) == CHOOSE j \in 1 .. n : keys[j] = x
    IN  (pos(k) - pos(r.current_channel_index) + n) % n

\* the outcome of the channel selection the claim describes, for a caller c
\* whose check has passed the aggregated test in this step
SelectsEarliest(c) ==
    LET ready == ReadyChannels(radio, now)
        chosen == radio'.current_channel_index
    IN  /\ ready # {} =>
              /\ pc'[c] = "transmit"
              /\ chosen \in ready
              /\ radio.current_channel_index \in KeySet(radio) =>
                     \A k \in ready :
                         RotationsTo(radio, chosen) <= RotationsTo(radio, k)
        /\ (ready = {} /\ Usable(radio) # {}) =>
              /\ pc'[c] = "chan_wait"
              /\ loc'[c].wake =
                     SetMin({NextTxTime(radio, k) : k \in Usable(radio)})

\* C30: the channel selection before a transmission, when the aggregated
\* check lets it look at the channels, transmits on the first ready channel
\* in rotation order from the current one, and with no channel ready sleeps
\* until the earliest time at which an enabled channel of the data rate
\* becomes ready.
C30_EarliestChannel ==
    [][\A c \in Callers :
          (/\ pc[c] = "check"
           /\ pc'[c] # "check"
           /\ log'.events = log.events) => SelectsEarliest(c)]_vars

\* C30 for a selection that starts at an enabled channel
C30_FromEnabledChannel ==
    [][\A c \in Callers :
          (/\ pc[c] = "check"
           /\ pc'[c] # "check"
           /\ log'.events = log.events
           /\ radio.current_channel_index \in KeySet(radio)) =>
              SelectsEarliest(c)]_vars

\* a send that found every channel of its data rate busy, slept until the
\* earliest of them became ready and is transmitting at that instant
C30_Witness ==
    \E c \in Callers :
        /\ pc[c] = "transmit"
        /\ log.tx_count >= 1
        /\ now > 0
        /\ loc[c].wake = now
        /\ Cardinality(Usable(radio)) >= 2
        /\ now = SetMin({NextTxTime(radio, k) : k \in Usable(radio)})
        /\ radio.current_channel_index \in ReadyChannels(radio, now)

\* a confirmed send is in progress: some caller is inside _send with
\* confirmed = True
ConfirmedSendInProgress ==
    \E c \in Callers : pc[c] \in InSendPCs /\ loc[c].confirmed

\* C31: an accepted downlink sets the ACK event and invokes on_ack only while
\* waiting_for_ack is true, and with no confirmed send in progress (no send,
\* or an unconfirmed one) the ACK bit has no effect: on_ack is not called and
\* waiting_for_ack, pending_fcnt and the ACK event stay as they are.
C31_AckOnlyWhileWaiting ==
    [][log'.downlinks = log.downlinks + 1 =>
          /\ (ack_event' # ack_event \/ log'.on_ack # log.on_ack) =>
                 waiting_for_ack
          /\ ~ConfirmedSendInProgress =>
                 /\ log'.on_ack = log.on_ack
                 /\ ack_event' = ack_event
                 /\ waiting_for_ack' = waiting_for_ack
                 /\ pending_fcnt' = pending_fcnt]_vars

\* C31 for the flag alone: without waiting_for_ack the ACK bit has no effect
C31_FlagGuardsAck ==
    [][log'.downlinks = log.downlinks + 1 =>
          /\ (ack_event' # ack_event \/ log'.on_ack # log.on_ack) =>
                 waiting_for_ack
          /\ ~waiting_for_ack =>
                 /\ log'.on_ack = log.on_ack
                 /\ ack_event' = ack_event
                 /\ waiting_for_ack' = waiting_for_ack
                 /\ pending_fcnt' = pending_fcnt]_vars

\* C31 as long as every send so far has ended by its return
C31_WhileSendsReturn ==
    [][(/\ log'.downlinks = log.downlinks + 1
        /\ \A c \in Callers : pc[c] \notin {"failed", "cancelled"}
        /\ ~ConfirmedSendInProgress) =>
              /\ log'.on_ack = log.on_ack
              /\ ack_event' = ack_event]_vars

\* C32: every uplink the stack builds has 0 to 15 bytes of FOpts and the low
\* nibble of FCtrl equal to their number, and a build inside send fails only
\* for the frame counter or the data rate, never for the length of FOpts.
C32_FOptsFit ==
    [][\A c \in Callers :
          (pc[c] = "build" /\ pc'[c] # "build") =>
              /\ pc'[c] = "failed" =>
                     \/ frame_counter >= FCntWire
                     \/ SfBwRaises(dr_to_sf_bw(radio.data_rate))
              /\ Len(log'.built) = Len(log.built) + 1 =>
                     LET frame == log'.last_build[1].frame IN
                     /\ Len(frame.fopts) \in 0 .. 15
                     /\ frame.fctrl % 16 = Len(frame.fopts)
                     /\ pc'[c] # "failed" => loc'[c].uplink_bytes = frame]_vars

\* uplinks built with no FOpts, with FOpts, and with more than 15 bytes of
\* answers pending, which went out on FPort 0
C32_Witness ==
    /\ log.last_build # <<>>
    /\ Len(log.last_build[1].had) > 15
    /\ log.last_build[1].frame.fport = 0
    /\ log.last_build[1].frame.fopts = <<>>
    /\ Len(log.built) >= 2

\* C33: an accepted downlink with MAC requests (in FOpts, with or without an
\* application payload behind them) drains the answers while it is
\* processed: the handler's list is empty after the step and the answers are
\* the pending bytes; and the uplink built next carries answers in FOpts.
C33_DrainedWithPayload ==
    [][/\ (/\ log'.downlinks = log.downlinks + 1
           /\ \/ pending_mac_responses' # pending_mac_responses
              \/ pending_mac_response_bytes' # pending_mac_response_bytes) =>
              /\ pending_mac_responses' = <<>>
              /\ pending_mac_response_bytes' # <<>>
       /\ \A c \in Callers :
             (/\ pc[c] = "build"
              /\ Len(log'.built) = Len(log.built) + 1
              /\ log.owed # <<>>) =>
                 log'.last_build[1].frame.fopts # <<>>]_vars

\* C33 for downlinks with MAC requests in FOpts and nothing behind them
C33_DrainedWithoutPayload ==
    [][(/\ log'.downlinks = log.downlinks + 1
        /\ pending_mac_response_bytes' # pending_mac_response_bytes) =>
              /\ pending_mac_responses' = <<>>
              /\ pending_mac_response_bytes' # <<>>]_vars

\* C34: a downlink with one RXTimingSetupReq leaves rx_delay_secs equal to
\* the low 4 bits of its payload byte, so within 0..15, and queues
\* RXTimingSetupAns, the byte 08.
C34_RxTimingLowNibble ==
    \A i \in 1 .. Len(log.parsed) :
        LET e == log.parsed[i] IN
        (Len(e.commands) = 1 /\ e.commands[1].cid = 8) =>
            /\ radio.rx_delay_secs = e.commands[1].payload[1] % 16
            /\ radio.rx_delay_secs \in 0 .. 15
            /\ pending_mac_response_bytes = <<8>>

\* C34 for a payload byte whose upper 4 bits are 0
C34_RxTimingPlain ==
    \A i \in 1 .. Len(log.parsed) :
        LET e == log.parsed[i] IN
        (/\ Len(e.commands) = 1
         /\ e.commands[1].cid = 8
         /\ e.commands[1].payload[1] < 16) =>
            /\ radio.rx_delay_secs = e.commands[1].payload[1]
            /\ pending_mac_response_bytes = <<8>>

\* what the claim says of an RXParamSetupReq with payload p applied to radio
\* r0, giving radio r1: three fields are set, every other field is as before
RxParamEffect(r0, p, r1) ==
    r1 = [r0 EXCEPT !.rx1_dr_offset = (p[1] \div 16) % 8,
                    !.rx2_datarate = p[1] % 16,
                    !.rx2_frequency = (p[2] + 256 * p[3] + 65536 * p[4]) * 100]

\* C35: a downlink with one RXParamSetupReq sets rx1_dr_offset, rx2_datarate
\* and rx2_frequency and leaves every other field of the radio, rx_delay_secs
\* among them, as it was.
C35_RxParamOnlyItsFields ==
    \A i \in 1 .. Len(log.parsed) :
        LET e == log.parsed[i] IN
        (Len(e.commands) = 1 /\ e.commands[1].cid = 5) =>
            RxParamEffect(e.before, e.commands[1].payload, radio)

\* C35 for a radio whose rx_delay_secs is 1, the value set at construction
C35_RxParamAtDefaultDelay ==
    \A i \in 1 .. Len(log.parsed) :
        LET e == log.parsed[i] IN
        (/\ Len(e.commands) = 1
         /\ e.commands[1].cid = 5
         /\ e.before.rx_delay_secs = 1) =>
            RxParamEffect(e.before, e.commands[1].payload, radio)

\* the callers whose send has built its frame and has not returned
HasBuilt(c) == pc[c] \in InSendPCs \ {"build"}

\* C36: a send called with confirmed = true transmits a confirmed-up frame
\* (MHDR 0x80), and a send whose frame is unconfirmed-up (MHDR 0x40) runs one
\* attempt and never waits for an ACK.
C36_ConfirmedMatchesMhdr ==
    \A c \in Callers :
        HasBuilt(c) =>
            /\ loc[c].confirmed => loc[c].uplink_bytes.mhdr = ConfirmedUp
            /\ loc[c].uplink_bytes.mhdr = UnconfirmedUp =>
                   /\ pc[c] \notin {"ack_wait", "backoff"}
                   /\ loc[c].max_ack_attempts = 1
                   /\ loc[c].ack_attempt = 0

\* C36 for sends built with at most 15 bytes of MAC answers pending
C36_WhenAnswersFit ==
    \A c \in Callers :
        (HasBuilt(c) /\ Len(log.last_build[1].had) <= 15) =>
            /\ loc[c].confirmed => loc[c].uplink_bytes.mhdr = ConfirmedUp
            /\ loc[c].uplink_bytes.mhdr = UnconfirmedUp =>
                   /\ pc[c] \notin {"ack_wait", "backoff"}
                   /\ loc[c].max_ack_attempts = 1
                   /\ loc[c].ack_attempt = 0

\* C37: at every hand-off of an uplink to the gateway the SF and bandwidth
\* put in the envelope, and the airtime charged to the duty cycle, are those
\* of the radio's data_rate at that moment.
C37_EnvelopeAtCurrentDataRate ==
    [][\A c \in Callers :
          (pc[c] = "transmit" /\ pc'[c] = "tx_sleep") =>
              LET sfbw == dr_to_sf_bw(radio.data_rate) IN
              /\ <<loc[c].sf, loc[c].bw>> = sfbw
              /\ ~SfBwRaises(sfbw) =>
                     loc[c].airtime =
                         calculate_airtime(loc[c].uplink_bytes.size,
                                           sfbw[1], sfbw[2])
              /\ last_uplink' # last_uplink =>
                     /\ last_uplink'.spreading_factor = sfbw[1]
                     /\ last_uplink'.bandwidth = sfbw[2]]_vars

\* C37 for the first transmission of a send
C37_FirstTransmission ==
    [][\A c \in Callers :
          (/\ pc[c] = "transmit"
           /\ pc'[c] = "tx_sleep"
           /\ loc[c].ack_attempt = 0
           /\ loc[c].nb_attempt = 0) =>
              LET sfbw == dr_to_sf_bw(radio.data_rate) IN
              /\ <<loc[c].sf, loc[c].bw>> = sfbw
              /\ loc[c].airtime =
                     calculate_airtime(loc[c].uplink_bytes.size,
                                       sfbw[1], sfbw[2])]_vars

\* C38: data_rate is a DR index in 0..7 in every radio state, so SF and
\* bandwidth are defined.
C38_DataRateInTable ==
    /\ radio.data_rate \in 0 .. 7
    /\ dr_to_sf_bw(radio.data_rate) # NoSfBw

\* what holds instead: an accepted downlink leaves data_rate a nibble, 0..15
C38_DataRateIsNibble ==
    [][log'.downlinks = log.downlinks + 1 =>
          radio'.data_rate \in 0 .. 15]_vars

\* C39: nb_trans is in 1..15 in every radio state, and every attempt of a
\* send performs at most nb_trans transmissions, nb_trans in 1..15 as read
\* when the send began, and at least one before it goes on to the ACK wait,
\* the back-off or the return.
C39_NbTransInRange ==
    /\ radio.nb_trans \in 1 .. 15
    /\ \A c \in Callers :
          HasBuilt(c) =>
              /\ loc[c].nb_trans \in 1 .. 15
              /\ loc[c].tx_in_attempt <= loc[c].nb_trans
              /\ pc[c] \in {"ack_wait", "backoff", "cleanup"} =>
                     loc[c].tx_in_attempt >= 1

\* a send has made the three transmissions of its attempt, nb_trans being 3
\* when it began, and a LinkADRReq with NbTrans 0 (and DR8) accepted in one of
\* its RX windows has set the radio's nb_trans to 1
C39_Witness ==
    /\ radio.nb_trans = 1
    /\ radio.data_rate = 8
    /\ \E c \in Callers :
          /\ HasBuilt(c)
          /\ loc[c].nb_trans = 3
          /\ loc[c].tx_in_attempt = 3

\* C40: every RX window that opens is eventually closed: after each
\* transmission rx1_open becomes true and later false, then rx2_open becomes
\* true and later false; and once no send is in progress and every window
\* timer task has finished, both flags are false
NoSendInProgress == \A c \in Callers : pc[c] \notin InSendPCs

C40_WindowsOpenAndClose ==
    /\ (\E t \in wtasks : t.kind = "rx1" /\ t.pc = "start") ~> rx1_open
    /\ rx1_open ~> ~rx1_open
    /\ rx1_open ~> rx2_open
    /\ rx2_open ~> ~rx2_open
    /\ []((NoSendInProgress /\ wtasks = {}) => (~rx1_open /\ ~rx2_open))

\* what holds instead: a window that has opened closes, and the idle device
\* without timer tasks has both windows closed
C40_OpenWindowsClose ==
    /\ rx1_open ~> ~rx1_open
    /\ rx2_open ~> ~rx2_open
    /\ []((NoSendInProgress /\ wtasks = {}) => (~rx1_open /\ ~rx2_open))

\* and RX1 always opens: no downlink of this network changes data_rate
C40_Rx1Opens ==
    (\E t \in wtasks : t.kind = "rx1" /\ t.pc = "start") ~> rx1_open
=============================================================================
